---- MODULE Spec2Model ----
(***************************************************************************)
(* A model of python/tvm/topi/cuda/nms.py: the GPU kernels of              *)
(* get_valid_counts (filter, exclusive scan, compaction) and of            *)
(* non_max_suppression (reorder, greedy suppression).                      *)
(*                                                                         *)
(* Buffers are flat, row-major functions from 0..size-1, indexed with the  *)
(* index arithmetic of the source.  A kernel launch is one action; the     *)
(* statements of its threads are applied thread by thread.  Values of the  *)
(* floating-point buffers (data, out) are stored as integer multiples of   *)
(* 1/FloatScale, so that 1.0 is FloatScale and -1.0 is -FloatScale; the    *)
(* IoU is a ratio of two integers and is compared with a rational          *)
(* threshold <<numerator, denominator>> by cross-multiplication.           *)
(***************************************************************************)
EXTENDS Integers, Sequences, FiniteSets, TLC

(* ------------------------------ bounds -------------------------------- *)

\* Largest batch size.
MaxBatch == 2
\* Largest num_anchors and largest batch_size * num_anchors of a scan input.
MaxScanAnchors == 8
MaxScanCells == 8
\* Largest batch_size * num_anchors of a get_valid_counts input.
MaxCountsCells == 4
\* Largest batch_size * num_anchors of an nms_ir input.
MaxNmsCells == 4
\* Target.max_num_threads: threads per block.
max_threads == 2
\* Resolution of the modelled floats: a stored integer v stands for v / FloatScale.
FloatScale == 2
\* Largest batch_size * num_anchors of a scan whose threads run one by one.
MaxThreadCells == 6
\* Largest batch_size * num_anchors of a compaction whose threads run one by one.
MaxCompactCells == 4
\* Largest num_anchors of the two-row batches the whole pipeline is run on twice.
MaxRowAnchors == 2
\* Largest coordinate of the boxes calculate_overlap is applied to on its own.
MaxCoord == 2
\* anchors of a row of boxes without area
MaxDegenerateCells == 3

VARIABLES
    pc,               \* the kernel to launch next
    batch_size,       \* data.shape[0]
    num_anchors,      \* data.shape[1]
    data,             \* input boxes [batch_size, num_anchors, elem_length]
    score_threshold,  \* get_valid_counts parameter
    id_index,         \* index of the class id field, negative to disable
    valid_boxes,      \* validity mask [batch_size, num_anchors]
    valid_indices,    \* scan buffer / destination indices [batch_size, num_anchors]
    valid_count,      \* [batch_size]
    l2_width,         \* loop variable of the up-sweep and down-sweep loops
    out,              \* output boxes [batch_size, num_anchors, elem_length]
    out_indices,      \* original anchor id per compacted slot
    sorted_index,     \* nms_ir: anchor ids by descending score [batch_size, num_anchors]
    indices,          \* nms_ir: original index of every input box
    box_indices,      \* nms_ir: original index of every kept box
    num_valid_boxes,  \* nms_ir: number of kept boxes [batch_size]
    num_valid_boxes_local, \* nms_ir: the running kept counter of every row
    nms_j,            \* nms_ir: loop variable j of the outer loop
    max_output_size,  \* nms_ir parameters
    iou_threshold,
    force_suppress,
    top_k,
    return_indices,
    row_pc,           \* nms_ir: "loop" or "done" for the block of every row
    accessed,         \* the out slots the suppression loop has read
    pending,          \* the threads of the launched kernel that have not run yet
    thread,           \* nms_ir: position and locals of every thread of the second kernel
    reads,            \* nms_ir: cells of out every thread read since its last barrier
    writes,           \* nms_ir: cells of out every thread wrote since its last barrier
    iou_result,              \* the last result of calculate_overlap and its arguments
    run,              \* 1 in the first invocation, 2 in a second one
    first_run         \* the inputs and outputs of the first invocation

nmsVars == << sorted_index, indices, box_indices, num_valid_boxes,
              num_valid_boxes_local, nms_j, max_output_size, iou_threshold,
              force_suppress, top_k, return_indices, row_pc, accessed >>

\* Thread-level and two-invocation bookkeeping.
auxVars == << pending, thread, reads, writes, iou_result, run, first_run >>

vars == << pc, batch_size, num_anchors, data, score_threshold, id_index,
           valid_boxes, valid_indices, valid_count, l2_width, out, out_indices,
           nmsVars, auxVars >>

(* ------------------------------ helpers ------------------------------- *)

ceil_div(a, b) == (a + b - 1) \div b

Min(a, b) == IF a < b THEN a ELSE b
Max(a, b) == IF a > b THEN a ELSE b

RECURSIVE Pow2(_)
Pow2(k) == IF k = 0 THEN 1 ELSE 2 * Pow2(k - 1)

\* ceil(log2(n)) for n >= 1: the least l with 2^l >= n.
RECURSIVE CeilLog2(_, _)
CeilLog2(n, l) == IF Pow2(l) >= n THEN l ELSE CeilLog2(n, l + 1)

\* A buffer of the given size whose content was never written.
Uninit(size, junk) == [c \in 0 .. size - 1 |-> junk]
JunkInts == {-1, 3}

\* The (blockIdx.y, tid) pairs of a launch with nblocks blocks per row.
Grid(nblocks) == (0 .. batch_size - 1) \X (0 .. nblocks * max_threads - 1)

\* The nms_ir part of the state while only get_valid_counts is run.
NmsIdle ==
    /\ sorted_index = << >>
    /\ indices = << >>
    /\ box_indices = << >>
    /\ num_valid_boxes = << >>
    /\ num_valid_boxes_local = << >>
    /\ nms_j = 0
    /\ max_output_size = 0
    /\ iou_threshold = << 0, 1 >>
    /\ force_suppress = FALSE
    /\ top_k = 0
    /\ return_indices = FALSE
    /\ row_pc = << >>
    /\ accessed = {}

\* No kernel is run thread by thread.
ThreadsIdle ==
    /\ pending = {}
    /\ thread = << >>
    /\ reads = << >>
    /\ writes = << >>

\* calculate_overlap has not been applied on its own.
IouIdle == iou_result = << >>

\* A single invocation.
RunsIdle == run = 1 /\ first_run = << >>

AuxIdle == ThreadsIdle /\ IouIdle /\ RunsIdle

(* ------------------- get_valid_indices_ir: the scan ------------------- *)

lim == CeilLog2(num_anchors, 0)

\* valid_indices[by, tid] = valid_boxes[by, tid]
CopyThread(vi, t) ==
    LET by == t[1]
        tid == t[2]
    IN  IF tid < num_anchors
        THEN [vi EXCEPT ![by * num_anchors + tid] = valid_boxes[by * num_anchors + tid]]
        ELSE vi

RECURSIVE CopyThreads(_, _)
CopyThreads(vi, S) ==
    IF S = {} THEN vi
    ELSE LET t == CHOOSE x \in S : TRUE
         IN  CopyThreads(CopyThread(vi, t), S \ {t})

ScanStart(tid, width) == width * tid
ScanMiddle(tid, width) == ScanStart(tid, width) + width \div 2
ScanEnd(tid, width) == Min(ScanStart(tid, width) + width, num_anchors)

\* One thread of an up-sweep level.
UpSweepThread(vi, t, width) ==
    LET by == t[1]
        tid == t[2]
        middle == ScanMiddle(tid, width)
        end == ScanEnd(tid, width)
    IN  IF ScanStart(tid, width) < num_anchors /\ middle < num_anchors
        THEN [vi EXCEPT ![by * num_anchors + end - 1] =
                            @ + vi[by * num_anchors + middle - 1]]
        ELSE vi

RECURSIVE UpSweepThreads(_, _, _)
UpSweepThreads(vi, S, width) ==
    IF S = {} THEN vi
    ELSE LET t == CHOOSE x \in S : TRUE
         IN  UpSweepThreads(UpSweepThread(vi, t, width), S \ {t}, width)

\* valid_indices after the total of row bx was read and its last element zeroed.
ZeroLastNoZero(vi, bx) == vi
ZeroLast(vi, bx) == [vi EXCEPT ![(bx + 1) * num_anchors - 1] = 0]

RECURSIVE ZeroLastRows(_, _)
ZeroLastRows(vi, S) ==
    IF S = {} THEN vi
    ELSE LET bx == CHOOSE x \in S : TRUE
         IN  ZeroLastRows(ZeroLast(vi, bx), S \ {bx})

DownSweepThreadNoSwap(vi, t, width) ==
    LET by == t[1]
        tid == t[2]
        middle == ScanMiddle(tid, width)
        end == ScanEnd(tid, width)
        tmp == vi[by * num_anchors + middle - 1]
    IN  IF ScanStart(tid, width) < num_anchors /\ middle < num_anchors
        THEN [vi EXCEPT ![by * num_anchors + end - 1] = @ + tmp]
        ELSE vi

\* One thread of a down-sweep level.
DownSweepThread(vi, t, width) ==
    LET by == t[1]
        tid == t[2]
        middle == ScanMiddle(tid, width)
        end == ScanEnd(tid, width)
        tmp == vi[by * num_anchors + middle - 1]
        vi1 == [vi EXCEPT ![by * num_anchors + middle - 1] =
                              vi[by * num_anchors + end - 1]]
    IN  IF ScanStart(tid, width) < num_anchors /\ middle < num_anchors
        THEN [vi1 EXCEPT ![by * num_anchors + end - 1] = @ + tmp]
        ELSE vi

RECURSIVE DownSweepThreads(_, _, _)
DownSweepThreads(vi, S, width) ==
    IF S = {} THEN vi
    ELSE LET t == CHOOSE x \in S : TRUE
         IN  DownSweepThreads(DownSweepThread(vi, t, width), S \ {t}, width)

\* The part of the state get_valid_indices_ir leaves alone.
ScanFrame ==
    UNCHANGED << batch_size, num_anchors, data, score_threshold, id_index,
                 valid_boxes, out, out_indices, nmsVars, auxVars >>

\* Kernel 1: copy the mask into the scan buffer.
CopyMask ==
    /\ pc = "copy"
    /\ num_anchors > 0
    /\ valid_indices' = CopyThreads(valid_indices, Grid(ceil_div(num_anchors, max_threads)))
    /\ l2_width' = 0
    /\ pc' = IF lim > 0 THEN "up" ELSE "total"
    /\ UNCHANGED valid_count
    /\ ScanFrame

\* num_anchors == 0: only valid_count is written.
ZeroAnchors ==
    /\ pc = "copy"
    /\ num_anchors = 0
    /\ valid_count' = [bx \in 0 .. batch_size - 1 |-> 0]
    /\ pc' = "scanned"
    /\ UNCHANGED << valid_indices, l2_width >>
    /\ ScanFrame

\* One level of the up-sweep: width = 2 << l2_width.
UpSweepLevel ==
    /\ pc = "up"
    /\ LET width == Pow2(l2_width + 1)
       IN  valid_indices' =
               UpSweepThreads(valid_indices,
                              Grid(ceil_div(num_anchors, max_threads * width)), width)
    /\ l2_width' = l2_width + 1
    /\ pc' = IF l2_width + 1 < lim THEN "up" ELSE "total"
    /\ UNCHANGED valid_count
    /\ ScanFrame

\* The total of each row goes to valid_count and the last element is zeroed.
CopyTotal ==
    /\ pc = "total"
    /\ valid_count' = [bx \in 0 .. batch_size - 1 |->
                           valid_indices[(bx + 1) * num_anchors - 1]]
    /\ valid_indices' = ZeroLastRows(valid_indices, 0 .. batch_size - 1)
    /\ l2_width' = 0
    /\ pc' = IF lim > 0 THEN "down" ELSE "scanned"
    /\ ScanFrame

\* One level of the down-sweep: width = 2 << (lim - l2_width - 1).
DownSweepLevel ==
    /\ pc = "down"
    /\ LET width == Pow2(lim - l2_width)
       IN  valid_indices' =
               DownSweepThreads(valid_indices,
                                Grid(ceil_div(num_anchors, max_threads * width)), width)
    /\ l2_width' = l2_width + 1
    /\ pc' = IF l2_width + 1 < lim THEN "down" ELSE "scanned"
    /\ UNCHANGED valid_count
    /\ ScanFrame

\* get_valid_indices_ir on its own: any batch size, any num_anchors, any 0/1 mask.
InitScan ==
    /\ pc = "copy"
    /\ batch_size \in 1 .. MaxBatch
    /\ num_anchors \in 0 .. MaxScanAnchors
    /\ batch_size * num_anchors <= MaxScanCells
    /\ valid_boxes \in [0 .. batch_size * num_anchors - 1 -> {0, 1}]
    /\ \E junk \in JunkInts :
           /\ valid_indices = Uninit(batch_size * num_anchors, junk)
           /\ valid_count = Uninit(batch_size, junk)
    /\ l2_width = 0
    /\ data = << >>
    /\ score_threshold = 0
    /\ id_index = 0
    /\ out = << >>
    /\ out_indices = << >>
    /\ NmsIdle
    /\ AuxIdle

NextScan ==
    \/ CopyMask
    \/ ZeroAnchors
    \/ UpSweepLevel
    \/ CopyTotal
    \/ DownSweepLevel

SpecScan == InitScan /\ [][NextScan]_vars

(* ------------ get_valid_indices_ir, one thread at a time -------------- *)

\* The threads of a launch of kernel k with level width w on grid g.
Launched(k, w, g) == {[k |-> k, w |-> w, t |-> t] : t \in g}

\* A kernel is launched when the kernels launched before it have completed.
KernelCompleteEarly == TRUE
KernelComplete == pending = {}

\* The cells of valid_indices a thread of a scan kernel reads and writes.
ScanReads(e) ==
    LET by == e.t[1]
        tid == e.t[2]
        middle == ScanMiddle(tid, e.w)
        end == ScanEnd(tid, e.w)
    IN  CASE e.k \in {"up", "down"} ->
                 IF ScanStart(tid, e.w) < num_anchors /\ middle < num_anchors
                 THEN {by * num_anchors + middle - 1, by * num_anchors + end - 1}
                 ELSE {}
          [] e.k = "total" -> {(by + 1) * num_anchors - 1}
          [] OTHER -> {}

ScanWrites(e) ==
    LET by == e.t[1]
        tid == e.t[2]
        middle == ScanMiddle(tid, e.w)
        end == ScanEnd(tid, e.w)
    IN  CASE e.k = "copy" ->
                 IF tid < num_anchors THEN {by * num_anchors + tid} ELSE {}
          [] e.k = "up" ->
                 IF ScanStart(tid, e.w) < num_anchors /\ middle < num_anchors
                 THEN {by * num_anchors + end - 1}
                 ELSE {}
          [] e.k = "down" ->
                 IF ScanStart(tid, e.w) < num_anchors /\ middle < num_anchors
                 THEN {by * num_anchors + middle - 1, by * num_anchors + end - 1}
                 ELSE {}
          [] e.k = "total" -> {(by + 1) * num_anchors - 1}
          [] OTHER -> {}

\* What the thread-level scan leaves alone.
ScanThreadFrame ==
    UNCHANGED << batch_size, num_anchors, data, score_threshold, id_index,
                 valid_boxes, out, out_indices, nmsVars, thread, reads, writes,
                 iou_result, run, first_run >>

\* The host launches the next kernel of get_valid_indices_ir.
LaunchScanKernel ==
    /\ KernelComplete
    /\ \/ /\ pc = "copy"
          /\ num_anchors > 0
          /\ pending' = pending \cup Launched("copy", 0,
                                              Grid(ceil_div(num_anchors, max_threads)))
          /\ l2_width' = 0
          /\ pc' = IF lim > 0 THEN "up" ELSE "total"
       \/ /\ pc = "copy"
          /\ num_anchors = 0
          /\ pending' = pending \cup Launched("zero", 0, (0 .. batch_size - 1) \X {0})
          /\ l2_width' = 0
          /\ pc' = "scanned"
       \/ /\ pc = "up"
          /\ LET width == Pow2(l2_width + 1)
             IN  pending' = pending \cup
                     Launched("up", width,
                              Grid(ceil_div(num_anchors, max_threads * width)))
          /\ l2_width' = l2_width + 1
          /\ pc' = IF l2_width + 1 < lim THEN "up" ELSE "total"
       \/ /\ pc = "total"
          /\ pending' = pending \cup Launched("total", 0, (0 .. batch_size - 1) \X {0})
          /\ l2_width' = 0
          /\ pc' = IF lim > 0 THEN "down" ELSE "scanned"
       \/ /\ pc = "down"
          /\ LET width == Pow2(lim - l2_width)
             IN  pending' = pending \cup
                     Launched("down", width,
                              Grid(ceil_div(num_anchors, max_threads * width)))
          /\ l2_width' = l2_width + 1
          /\ pc' = IF l2_width + 1 < lim THEN "down" ELSE "scanned"
    /\ UNCHANGED << valid_indices, valid_count >>
    /\ ScanThreadFrame

\* One thread of a launched scan kernel runs.
ScanThreadStep(e) ==
    /\ e \in pending
    /\ pending' = pending \ {e}
    /\ CASE e.k = "copy" ->
                /\ valid_indices' = CopyThread(valid_indices, e.t)
                /\ UNCHANGED valid_count
         [] e.k = "up" ->
                /\ valid_indices' = UpSweepThread(valid_indices, e.t, e.w)
                /\ UNCHANGED valid_count
         [] e.k = "total" ->
                /\ valid_count' = [valid_count EXCEPT ![e.t[1]] =
                                       valid_indices[(e.t[1] + 1) * num_anchors - 1]]
                /\ valid_indices' = ZeroLast(valid_indices, e.t[1])
         [] e.k = "down" ->
                /\ valid_indices' = DownSweepThread(valid_indices, e.t, e.w)
                /\ UNCHANGED valid_count
         [] e.k = "zero" ->
                /\ valid_count' = [valid_count EXCEPT ![e.t[1]] = 0]
                /\ UNCHANGED valid_indices
    /\ UNCHANGED << pc, l2_width >>
    /\ ScanThreadFrame

InitScanThreads ==
    /\ pc = "copy"
    /\ batch_size \in 1 .. MaxBatch
    /\ num_anchors \in 0 .. MaxThreadCells
    /\ batch_size * num_anchors <= MaxThreadCells
    /\ valid_boxes \in [0 .. batch_size * num_anchors - 1 -> {0, 1}]
    /\ \E junk \in JunkInts :
           /\ valid_indices = Uninit(batch_size * num_anchors, junk)
           /\ valid_count = Uninit(batch_size, junk)
    /\ l2_width = 0
    /\ data = << >>
    /\ score_threshold = 0
    /\ id_index = 0
    /\ out = << >>
    /\ out_indices = << >>
    /\ NmsIdle
    /\ AuxIdle

NextScanThreads ==
    \/ LaunchScanKernel
    \/ \E e \in pending : ScanThreadStep(e)

SpecScanThreads == InitScanThreads /\ [][NextScanThreads]_vars

(* ------------------------- the box records ---------------------------- *)

\* A box record: [class_id, score, box_left, box_top, box_right, box_bottom].
elem_length == 6
score_index == 1
coord_start == 2

\* An input anchor, fields 1..elem_length of the sequence being fields
\* 0..elem_length-1 of the record.  Class ids and coordinates are whole
\* numbers; a score is given in units of 1/FloatScale.
Anchor(class_id, score, l, t, r, b) ==
    << class_id * FloatScale, score, l * FloatScale, t * FloatScale,
       r * FloatScale, b * FloatScale >>

\* The record the kernels write into a discarded slot: -1.0 in every field.
SentinelAnchor == [k \in 1 .. elem_length |-> -FloatScale]

\* The anchors the inputs are drawn from.  IoU(1st,2nd) = 1/3, IoU(1st,3rd) =
\* IoU(1st,4th) = 1/5, IoU(2nd,3rd) = IoU(2nd,4th) = 1/2, the 3rd and the 4th are
\* disjoint; the 5th is the 1st with its corners swapped and score 0, the 6th
\* has a score between -1 and 0.
Anchors ==
    { Anchor(0, FloatScale + 2, 1, 0, 3, 2),
      Anchor(0, FloatScale + 1, 0, 0, 4, 1),
      Anchor(0, FloatScale, 0, 0, 2, 1),
      Anchor(1, FloatScale, 2, 0, 4, 1),
      Anchor(0, 0, 3, 2, 1, 0),
      Anchor(1, -1, 0, 0, 4, 1),
      SentinelAnchor }

\* The position of an anchor in the order the rows of an nms_ir input list
\* their anchors in; it is not the order of the scores.
AnchorOrder ==
    << Anchor(0, FloatScale, 0, 0, 2, 1),
       Anchor(0, FloatScale + 2, 1, 0, 3, 2),
       Anchor(0, 0, 3, 2, 1, 0),
       Anchor(1, FloatScale, 2, 0, 4, 1),
       Anchor(0, FloatScale + 1, 0, 0, 4, 1),
       Anchor(1, -1, 0, 0, 4, 1),
       SentinelAnchor >>
AnchorRank(a) == CHOOSE r \in 1 .. Len(AnchorOrder) : AnchorOrder[r] = a

\* The anchors of the rows of a batch of several rows.
BatchAnchors ==
    { Anchor(0, FloatScale + 2, 1, 0, 3, 2),
      Anchor(0, 0, 3, 2, 1, 0),
      Anchor(0, FloatScale + 1, 0, 0, 4, 1) }

\* The thresholds nms_ir is run with: -1/2, 0, 3/10 and 1/2.
IouThresholds == { << -1, 2 >>, << 0, 1 >>, << 3, 10 >>, << 1, 2 >> }

\* The anchors the inputs of get_valid_counts are drawn from: scores above,
\* at and below either score threshold, with and without a class.
CountsAnchors ==
    { Anchor(0, FloatScale + 2, 1, 0, 3, 2),
      Anchor(0, FloatScale, 0, 0, 2, 1),
      Anchor(0, 0, 3, 2, 1, 0),
      Anchor(-1, FloatScale + 1, 0, 0, 2, 1),
      SentinelAnchor }

\* The flat buffer [batch_size, num_anchors, elem_length] of an assignment of
\* anchors to the batch_size * num_anchors positions.
Flatten(a) ==
    [c \in 0 .. Cardinality(DOMAIN a) * elem_length - 1 |->
        a[c \div elem_length][(c % elem_length) + 1]]

(* ---------------- get_valid_boxes_ir: the score filter ---------------- *)

\* One thread: the mask of anchor tid of row by.
ValidBoxesThreadGe(vb, t) ==
    LET i == t[1]
        jj == t[2]
        score == data[(i * num_anchors + jj) * elem_length + score_index]
    IN  IF jj < num_anchors
        THEN IF /\ score >= score_threshold
                /\ \/ id_index < 0
                   \/ data[(i * num_anchors + jj) * elem_length + id_index] >= 0
             THEN [vb EXCEPT ![i * num_anchors + jj] = 1]
             ELSE [vb EXCEPT ![i * num_anchors + jj] = 0]
        ELSE vb

ValidBoxesThread(vb, t) ==
    LET i == t[1]
        jj == t[2]
        score == data[(i * num_anchors + jj) * elem_length + score_index]
    IN  IF jj < num_anchors
        THEN IF /\ score > score_threshold
                /\ \/ id_index < 0
                   \/ data[(i * num_anchors + jj) * elem_length + id_index] >= 0
             THEN [vb EXCEPT ![i * num_anchors + jj] = 1]
             ELSE [vb EXCEPT ![i * num_anchors + jj] = 0]
        ELSE vb

RECURSIVE ValidBoxesThreads(_, _)
ValidBoxesThreads(vb, S) ==
    IF S = {} THEN vb
    ELSE LET t == CHOOSE x \in S : TRUE
         IN  ValidBoxesThreads(ValidBoxesThread(vb, t), S \ {t})

GetValidBoxes ==
    /\ pc = "filter"
    /\ valid_boxes' = ValidBoxesThreads(valid_boxes, Grid(ceil_div(num_anchors, max_threads)))
    /\ pc' = "copy"
    /\ UNCHANGED << batch_size, num_anchors, data, score_threshold, id_index,
                    valid_indices, valid_count, l2_width, out, out_indices, nmsVars,
                    auxVars >>

(* ---------------- get_valid_counts_ir: the compaction ----------------- *)

\* One thread of the first kernel: slot tid of row by is filled with -1.
FillThread(b, t) ==
    LET i == t[1]
        jj == t[2]
    IN  IF jj < num_anchors
        THEN [out |-> [c \in DOMAIN b.out |->
                          IF c \div elem_length = i * num_anchors + jj
                          THEN -FloatScale ELSE b.out[c]],
              out_indices |-> [b.out_indices EXCEPT ![i * num_anchors + jj] = -1]]
        ELSE b

RECURSIVE FillThreads(_, _)
FillThreads(b, S) ==
    IF S = {} THEN b
    ELSE LET t == CHOOSE x \in S : TRUE
         IN  FillThreads(FillThread(b, t), S \ {t})

\* One thread of the second kernel: a valid anchor is copied to its destination.
ScatterThreadInPlace(b, t) ==
    LET i == t[1]
        jj == t[2]
    IN  IF jj < num_anchors /\ valid_boxes[i * num_anchors + jj] > 0
        THEN [out |-> [c \in DOMAIN b.out |->
                          IF c \div elem_length = i * num_anchors + jj
                          THEN data[c] ELSE b.out[c]],
              out_indices |-> [b.out_indices EXCEPT ![i * num_anchors + jj] = jj]]
        ELSE b

ScatterThreadRow0(b, t) ==
    LET i == t[1]
        jj == t[2]
        dst == valid_indices[i * num_anchors + jj]
    IN  IF jj < num_anchors /\ valid_boxes[i * num_anchors + jj] > 0
        THEN [out |-> [c \in DOMAIN b.out |->
                          IF c \div elem_length = dst
                          THEN data[(i * num_anchors + jj) * elem_length
                                    + (c % elem_length)]
                          ELSE b.out[c]],
              out_indices |-> [b.out_indices EXCEPT ![dst] = jj]]
        ELSE b

ScatterThread(b, t) ==
    LET i == t[1]
        jj == t[2]
        dst == i * num_anchors + valid_indices[i * num_anchors + jj]
    IN  IF jj < num_anchors /\ valid_boxes[i * num_anchors + jj] > 0
        THEN [out |-> [c \in DOMAIN b.out |->
                          IF c \div elem_length = dst
                          THEN data[(i * num_anchors + jj) * elem_length
                                    + (c % elem_length)]
                          ELSE b.out[c]],
              out_indices |-> [b.out_indices EXCEPT ![dst] = jj]]
        ELSE b

RECURSIVE ScatterThreads(_, _)
ScatterThreads(b, S) ==
    IF S = {} THEN b
    ELSE LET t == CHOOSE x \in S : TRUE
         IN  ScatterThreads(ScatterThread(b, t), S \ {t})

CountsFrame ==
    UNCHANGED << batch_size, num_anchors, data, score_threshold, id_index,
                 valid_boxes, valid_indices, valid_count, l2_width, nmsVars,
                 auxVars >>

\* nthread_bx = num_anchors // max_threads + 1 blocks per row, in both kernels.
Fill ==
    /\ pc = "scanned"
    /\ LET b == FillThreads([out |-> out, out_indices |-> out_indices],
                            Grid(num_anchors \div max_threads + 1))
       IN  /\ out' = b.out
           /\ out_indices' = b.out_indices
    /\ pc' = "scatter"
    /\ CountsFrame

Scatter ==
    /\ pc = "scatter"
    /\ LET b == ScatterThreads([out |-> out, out_indices |-> out_indices],
                               Grid(num_anchors \div max_threads + 1))
       IN  /\ out' = b.out
           /\ out_indices' = b.out_indices
    /\ pc' = "compacted"
    /\ CountsFrame

\* get_valid_counts: the filter, the scan and the compaction on any input.
InitCounts ==
    /\ pc = "filter"
    /\ batch_size \in 1 .. MaxBatch
    /\ num_anchors \in 0 .. MaxCountsCells
    /\ batch_size * num_anchors <= MaxCountsCells
    /\ \E a \in [0 .. batch_size * num_anchors - 1 -> CountsAnchors] : data = Flatten(a)
    /\ score_threshold \in {0, FloatScale}
    /\ id_index \in {-1, 0}
    /\ \E junk \in JunkInts :
           /\ valid_boxes = Uninit(batch_size * num_anchors, junk)
           /\ valid_indices = Uninit(batch_size * num_anchors, junk)
           /\ valid_count = Uninit(batch_size, junk)
           /\ out = Uninit(batch_size * num_anchors * elem_length, junk * FloatScale)
           /\ out_indices = Uninit(batch_size * num_anchors, junk)
    /\ l2_width = 0
    /\ NmsIdle
    /\ AuxIdle

NextCounts ==
    \/ GetValidBoxes
    \/ CopyMask
    \/ ZeroAnchors
    \/ UpSweepLevel
    \/ CopyTotal
    \/ DownSweepLevel
    \/ Fill
    \/ Scatter

SpecCounts == InitCounts /\ [][NextCounts]_vars

(* ------------- get_valid_counts_ir, one thread at a time -------------- *)

\* The anchors of a compaction whose threads run one by one: two valid
\* anchors and one whose score is not above the threshold 0.
CompactAnchors ==
    { Anchor(0, FloatScale + 2, 1, 0, 3, 2),
      Anchor(0, FloatScale, 0, 0, 2, 1),
      Anchor(0, 0, 3, 2, 1, 0) }

\* The scatter kernel is launched when the fill kernel has completed.
ScatterBeforeFillDone == TRUE
FillComplete == \A e \in pending : e.k # "fill"

\* The host launches the first kernel of get_valid_counts_ir.
LaunchFill ==
    /\ pc = "scanned"
    /\ KernelComplete
    /\ pending' = pending \cup Launched("fill", 0, Grid(num_anchors \div max_threads + 1))
    /\ pc' = "scatter"
    /\ UNCHANGED << out, out_indices, thread, reads, writes, iou_result, run, first_run >>
    /\ UNCHANGED << batch_size, num_anchors, data, score_threshold, id_index,
                    valid_boxes, valid_indices, valid_count, l2_width, nmsVars >>

\* The host launches the second kernel.
LaunchScatter ==
    /\ pc = "scatter"
    /\ FillComplete
    /\ pending' = pending \cup
                      Launched("scatter", 0, Grid(num_anchors \div max_threads + 1))
    /\ pc' = "compacted"
    /\ UNCHANGED << out, out_indices, thread, reads, writes, iou_result, run, first_run >>
    /\ UNCHANGED << batch_size, num_anchors, data, score_threshold, id_index,
                    valid_boxes, valid_indices, valid_count, l2_width, nmsVars >>

\* One thread of a launched kernel of get_valid_counts_ir runs.
CompactThreadStep(e) ==
    /\ e \in pending
    /\ pending' = pending \ {e}
    /\ LET b0 == [out |-> out, out_indices |-> out_indices]
           b == IF e.k = "fill" THEN FillThread(b0, e.t) ELSE ScatterThread(b0, e.t)
       IN  /\ out' = b.out
           /\ out_indices' = b.out_indices
    /\ UNCHANGED << pc, thread, reads, writes, iou_result, run, first_run >>
    /\ UNCHANGED << batch_size, num_anchors, data, score_threshold, id_index,
                    valid_boxes, valid_indices, valid_count, l2_width, nmsVars >>

InitCompactThreads ==
    /\ pc = "filter"
    /\ batch_size \in 1 .. MaxBatch
    /\ num_anchors \in 0 .. MaxCompactCells
    /\ batch_size * num_anchors <= MaxCompactCells
    /\ \E a \in [0 .. batch_size * num_anchors - 1 -> CompactAnchors] : data = Flatten(a)
    /\ score_threshold = 0
    /\ id_index = -1
    /\ \E junk \in JunkInts :
           /\ valid_boxes = Uninit(batch_size * num_anchors, junk)
           /\ valid_indices = Uninit(batch_size * num_anchors, junk)
           /\ valid_count = Uninit(batch_size, junk)
           /\ out = Uninit(batch_size * num_anchors * elem_length, junk * FloatScale)
           /\ out_indices = Uninit(batch_size * num_anchors, junk)
    /\ l2_width = 0
    /\ NmsIdle
    /\ AuxIdle

NextCompactThreads ==
    \/ GetValidBoxes
    \/ CopyMask
    \/ ZeroAnchors
    \/ UpSweepLevel
    \/ CopyTotal
    \/ DownSweepLevel
    \/ LaunchFill
    \/ LaunchScatter
    \/ \E e \in pending : CompactThreadStep(e)

SpecCompactThreads == InitCompactThreads /\ [][NextCompactThreads]_vars

(* ----------------------- nms_ir: the overlap -------------------------- *)

get_boundaries_raw(output, box_idx) ==
    << output[box_idx], output[box_idx + 1], output[box_idx + 2], output[box_idx + 3] >>

get_boundaries(output, box_idx) ==
    << Min(output[box_idx], output[box_idx + 2]),
       Min(output[box_idx + 1], output[box_idx + 3]),
       Max(output[box_idx], output[box_idx + 2]),
       Max(output[box_idx + 1], output[box_idx + 3]) >>

\* An overlap that is 1 when the union is empty.
calculate_overlap_empty_one(out_tensor, box_a_idx, box_b_idx) ==
    LET a == get_boundaries(out_tensor, box_a_idx)
        b == get_boundaries(out_tensor, box_b_idx)
        w == Max(0, Min(a[3], b[3]) - Max(a[1], b[1]))
        h == Max(0, Min(a[4], b[4]) - Max(a[2], b[2]))
        area == h * w
        u == (a[3] - a[1]) * (a[4] - a[2]) + (b[3] - b[1]) * (b[4] - b[2]) - area
    IN  IF u <= 0 THEN << 1, 1 >> ELSE << area, u >>

\* The IoU of two boxes as the ratio << numerator, denominator >>.
calculate_overlap(out_tensor, box_a_idx, box_b_idx) ==
    LET a == get_boundaries(out_tensor, box_a_idx)
        b == get_boundaries(out_tensor, box_b_idx)
        w == Max(0, Min(a[3], b[3]) - Max(a[1], b[1]))
        h == Max(0, Min(a[4], b[4]) - Max(a[2], b[2]))
        area == h * w
        u == (a[3] - a[1]) * (a[4] - a[2]) + (b[3] - b[1]) * (b[4] - b[2]) - area
    IN  IF u <= 0 THEN << 0, 1 >> ELSE << area, u >>

\* iou >= thr, for ratios with positive denominators.
RatioGt(iou, thr) == iou[1] * thr[2] > thr[1] * iou[2]
RatioLe(iou, thr) == iou[1] * thr[2] <= thr[1] * iou[2]
RatioGe(iou, thr) == iou[1] * thr[2] >= thr[1] * iou[2]

\* iou_threshold > 0
ThresholdNotNegative(thr) == thr[1] >= 0
ThresholdPositive(thr) == thr[1] > 0

(* --------------- calculate_overlap applied on its own ----------------- *)

\* The boxes of given corners: class 0, score 1.0.
CoordBoxes ==
    {Anchor(0, FloatScale, l, t, r, b) :
        l \in 0 .. MaxCoord, t \in 0 .. MaxCoord,
        r \in 0 .. MaxCoord, b \in 0 .. MaxCoord}

\* calculate_overlap(out, ...) on boxes a and b of a row of two boxes.
CalculateOverlap(a, b) ==
    /\ pc = "overlap"
    /\ iou_result = << >>
    /\ iou_result' = [a |-> a, b |-> b,
               value |-> calculate_overlap(out, a * elem_length + coord_start,
                                           b * elem_length + coord_start)]
    /\ UNCHANGED << pc, batch_size, num_anchors, data, score_threshold, id_index,
                    valid_boxes, valid_indices, valid_count, l2_width, out,
                    out_indices, nmsVars, pending, thread, reads, writes, run,
                    first_run >>

\* Two boxes with corners in any order.
InitIou ==
    /\ pc = "overlap"
    /\ batch_size = 1
    /\ num_anchors = 2
    /\ \E a \in [0 .. 1 -> CoordBoxes] : out = Flatten(a)
    /\ iou_result = << >>
    /\ data = << >>
    /\ score_threshold = 0
    /\ id_index = 0
    /\ valid_boxes = << >>
    /\ valid_indices = << >>
    /\ valid_count = << >>
    /\ l2_width = 0
    /\ out_indices = << >>
    /\ NmsIdle
    /\ ThreadsIdle
    /\ RunsIdle

NextIou == \E a, b \in 0 .. 1 : CalculateOverlap(a, b)

SpecIou == InitIou /\ [][NextIou]_vars

(* ----------------------- nms_ir: the reorder -------------------------- *)

\* The branch of a row: suppression, or the copy of the valid boxes.
SuppressionPath(thr, i) == ThresholdPositive(thr) /\ valid_count[i] > 0

nkeep(i) == IF top_k > 0 /\ top_k < valid_count[i] THEN top_k ELSE valid_count[i]

\* One thread of the first kernel of nms_ir on the suppression path: slot jj
\* receives the box of rank jj, or -1 in every field from nkeep on.
ReorderSorted(b, t) ==
    LET i == t[1]
        jj == t[2]
        base_idx == i * num_anchors * elem_length
        src == base_idx + sorted_index[i * num_anchors + jj] * elem_length
    IN  [out |-> [c \in DOMAIN b.out |->
                     IF c \div elem_length = i * num_anchors + jj
                     THEN IF jj < nkeep(i)
                          THEN data[src + (c % elem_length)]
                          ELSE IF jj < num_anchors THEN -FloatScale ELSE b.out[c]
                     ELSE b.out[c]],
         box_indices |-> IF jj < num_anchors
                         THEN [b.box_indices EXCEPT ![i * num_anchors + jj] = -1]
                         ELSE b.box_indices]

\* One thread of the first kernel on the other path: valid box jj is copied.
ReorderCopyRanked(b, t) ==
    LET i == t[1]
        jj == t[2]
        base_idx == i * num_anchors * elem_length
        src == base_idx + sorted_index[i * num_anchors + jj] * elem_length
    IN  IF jj < valid_count[i]
        THEN [out |-> [c \in DOMAIN b.out |->
                          IF c \div elem_length = i * num_anchors + jj
                          THEN data[src + (c % elem_length)] ELSE b.out[c]],
              box_indices |-> [b.box_indices EXCEPT ![i * num_anchors + jj] = jj]]
        ELSE b
ReorderCopy(b, t) ==
    LET i == t[1]
        jj == t[2]
    IN  IF jj < valid_count[i]
        THEN [out |-> [c \in DOMAIN b.out |->
                          IF c \div elem_length = i * num_anchors + jj
                          THEN data[c] ELSE b.out[c]],
              box_indices |-> [b.box_indices EXCEPT ![i * num_anchors + jj] = jj]]
        ELSE b

\* One thread of the first kernel of nms_ir, for threshold thr.
ReorderThread(b, t, thr) ==
    IF SuppressionPath(thr, t[1]) THEN ReorderSorted(b, t) ELSE ReorderCopy(b, t)

RECURSIVE ReorderThreads(_, _, _)
ReorderThreads(b, S, thr) ==
    IF S = {} THEN b
    ELSE LET t == CHOOSE x \in S : TRUE
         IN  ReorderThreads(ReorderThread(b, t, thr), S \ {t}, thr)

\* out and box_indices after the first kernel.
Reordered(thr) ==
    ReorderThreads([out |-> out, box_indices |-> box_indices],
                   Grid(ceil_div(num_anchors, max_threads)), thr)

(* --------------------- nms_ir: the suppression ------------------------ *)

\* "Proceed to the inner loop if the box j is still valid"
BoxJValid(o, i, jj) ==
    o[i * num_anchors * elem_length + jj * elem_length + score_index] > -FloatScale

\* "is the box k still valid?"
BoxKValid(o, i, k) ==
    o[i * num_anchors * elem_length + k * elem_length + score_index] > 0

\* The class policy of the inner loop.
ClassPolicyGated(o, i, jj, k) ==
    \/ force_suppress
    \/ /\ id_index >= 0
       /\ o[i * num_anchors * elem_length + k * elem_length + id_index]
              = o[i * num_anchors * elem_length + jj * elem_length + id_index]

ClassPolicy(o, i, jj, k) ==
    \/ force_suppress
    \/ id_index < 0
    \/ o[i * num_anchors * elem_length + k * elem_length + id_index]
           = o[i * num_anchors * elem_length + jj * elem_length + id_index]

\* The slots k = j + 1 + _k * nthread_tx + tx the inner loop of step j visits
\* and reads: those below nkeep.
InnerSlotsAll(i, jj) ==
    {k \in { jj + 1 + kk * max_threads + tx :
                 kk \in 0 .. ceil_div(nkeep(i) - (jj + 1), max_threads) - 1,
                 tx \in 0 .. max_threads - 1 } : k < num_anchors}
InnerSlotsFromJ(i, jj) ==
    {k \in { jj + kk * max_threads + tx :
                 kk \in 0 .. ceil_div(nkeep(i) - (jj + 1), max_threads) - 1,
                 tx \in 0 .. max_threads - 1 } : k < nkeep(i)}
InnerSlots(i, jj) ==
    {k \in { jj + 1 + kk * max_threads + tx :
                 kk \in 0 .. ceil_div(nkeep(i) - (jj + 1), max_threads) - 1,
                 tx \in 0 .. max_threads - 1 } : k < nkeep(i)}

\* An inner iteration that clears the whole record of box k.
InnerThreadClear(o, i, jj, k, thr) ==
    LET base_idx == i * num_anchors * elem_length
        offset_j == jj * elem_length
        offset_k == k * elem_length
    IN  IF /\ BoxKValid(o, i, k)
           /\ ClassPolicy(o, i, jj, k)
           /\ RatioGe(calculate_overlap(o, base_idx + offset_j + coord_start,
                                        base_idx + offset_k + coord_start), thr)
        THEN [c \in DOMAIN o |->
                 IF c \div elem_length = i * num_anchors + k THEN -FloatScale ELSE o[c]]
        ELSE o

\* One inner iteration of one thread: box k against the kept box j.
InnerThread(o, i, jj, k, thr) ==
    LET base_idx == i * num_anchors * elem_length
        offset_j == jj * elem_length
        offset_k == k * elem_length
        o1 == [o EXCEPT ![base_idx + offset_k + score_index] = -FloatScale]
    IN  IF /\ BoxKValid(o, i, k)
           /\ ClassPolicy(o, i, jj, k)
           /\ RatioGe(calculate_overlap(o, base_idx + offset_j + coord_start,
                                        base_idx + offset_k + coord_start), thr)
        THEN IF id_index >= 0
             THEN [o1 EXCEPT ![base_idx + offset_k + id_index] = -FloatScale]
             ELSE o1
        ELSE o

RECURSIVE InnerThreads(_, _, _, _, _)
InnerThreads(o, i, jj, S, thr) ==
    IF S = {} THEN o
    ELSE LET k == CHOOSE x \in S : TRUE
         IN  InnerThreads(InnerThread(o, i, jj, k, thr), i, jj, S \ {k}, thr)

\* Whether step j of row i runs nms_inner_loop, given the kept counter.
UncappedRunsInner(o, i, jj, kept) == BoxJValid(o, i, jj)
RunsInnerStrict(o, i, jj, kept) ==
    /\ BoxJValid(o, i, jj)
    /\ max_output_size > 0 => kept + 1 < max_output_size
RunsInner(o, i, jj, kept) ==
    /\ BoxJValid(o, i, jj)
    /\ max_output_size > 0 => kept < max_output_size

\* One iteration of the outer loop of row i on the state
\* s = [out, box_indices, kept, keptset]: keptset, the positions for which
\* nms_inner_loop ran, is not a variable of the code.
OuterStep(s, i, jj, thr) ==
    IF RunsInner(s.out, i, jj, s.kept)
    THEN [out |-> InnerThreads(s.out, i, jj, InnerSlots(i, jj), thr),
          box_indices |->
              IF return_indices
              THEN [s.box_indices EXCEPT ![i * num_anchors + s.kept] =
                       indices[i * num_anchors + sorted_index[i * num_anchors + jj]]]
              ELSE s.box_indices,
          kept |-> s.kept + 1,
          keptset |-> s.keptset \cup {jj}]
    ELSE s

\* The outer loop of row i from step jj on.
RECURSIVE OuterLoop(_, _, _, _)
OuterLoop(s, i, jj, thr) ==
    IF jj >= nkeep(i) THEN s
    ELSE OuterLoop(OuterStep(s, i, jj, thr), i, jj + 1, thr)

\* The positions nms_ir counts as kept in row i when run with threshold thr.
KeptSet(i, thr) ==
    IF SuppressionPath(thr, i)
    THEN LET r == Reordered(thr)
         IN  OuterLoop([out |-> r.out, box_indices |-> r.box_indices,
                        kept |-> 0, keptset |-> {}], i, 0, thr).keptset
    ELSE {}

NmsFrame ==
    UNCHANGED << batch_size, num_anchors, data, score_threshold, id_index,
                 valid_boxes, valid_indices, valid_count, l2_width, out_indices,
                 sorted_index, indices, max_output_size, iou_threshold,
                 force_suppress, top_k, return_indices, auxVars >>

\* The first kernel: reorder (or copy) the boxes of every row.
Reorder ==
    /\ pc = "reorder"
    /\ LET r == Reordered(iou_threshold)
       IN  /\ out' = r.out
           /\ box_indices' = r.box_indices
    /\ pc' = "suppress"
    /\ UNCHANGED << num_valid_boxes, num_valid_boxes_local, nms_j, row_pc, accessed >>
    /\ NmsFrame

\* Second kernel, one iteration of the outer loop of the block of row i.
NmsOuterStep(i) ==
    /\ pc = "suppress"
    /\ row_pc[i] = "loop"
    /\ SuppressionPath(iou_threshold, i)
    /\ nms_j[i] < nkeep(i)
    /\ LET s == OuterStep([out |-> out, box_indices |-> box_indices,
                           kept |-> num_valid_boxes_local[i], keptset |-> {}],
                          i, nms_j[i], iou_threshold)
       IN  /\ out' = s.out
           /\ box_indices' = s.box_indices
           /\ num_valid_boxes_local' = [num_valid_boxes_local EXCEPT ![i] = s.kept]
           /\ accessed' = accessed \cup {<< i, nms_j[i] >>}
                              \cup (IF s.keptset # {}
                                    THEN {<< i, k >> : k \in InnerSlots(i, nms_j[i])}
                                    ELSE {})
    /\ nms_j' = [nms_j EXCEPT ![i] = @ + 1]
    /\ UNCHANGED << pc, num_valid_boxes, row_pc >>
    /\ NmsFrame

\* Second kernel, after the loop: thread 0 publishes the kept counter.
NmsFinish(i) ==
    /\ pc = "suppress"
    /\ row_pc[i] = "loop"
    /\ SuppressionPath(iou_threshold, i)
    /\ nms_j[i] >= nkeep(i)
    /\ num_valid_boxes' = [num_valid_boxes EXCEPT ![i] = num_valid_boxes_local[i]]
    /\ row_pc' = [row_pc EXCEPT ![i] = "done"]
    /\ UNCHANGED << pc, out, box_indices, num_valid_boxes_local, nms_j, accessed >>
    /\ NmsFrame

\* Second kernel, the other branch: nothing is suppressed.
NmsNoSuppression(i) ==
    /\ pc = "suppress"
    /\ row_pc[i] = "loop"
    /\ ~SuppressionPath(iou_threshold, i)
    /\ num_valid_boxes' = [num_valid_boxes EXCEPT ![i] = 0]
    /\ row_pc' = [row_pc EXCEPT ![i] = "done"]
    /\ UNCHANGED << pc, out, box_indices, num_valid_boxes_local, nms_j, accessed >>
    /\ NmsFrame

\* The sorter's contract: a permutation of the anchors of every row along
\* which the scores do not increase.
IsSorted(si) ==
    \A i \in 0 .. batch_size - 1 :
        /\ {si[i * num_anchors + p] : p \in 0 .. num_anchors - 1} = 0 .. num_anchors - 1
        /\ \A p \in 0 .. num_anchors - 2 :
               data[(i * num_anchors + si[i * num_anchors + p]) * elem_length + score_index]
                   >= data[(i * num_anchors + si[i * num_anchors + p + 1]) * elem_length
                           + score_index]

\* The anchors of one row: distinct anchors in the order of AnchorOrder.
RowChoices(n, pool) ==
    {a \in [0 .. n - 1 -> pool] :
        \A p, q \in 0 .. n - 1 : p < q => AnchorRank(a[p]) < AnchorRank(a[q])}

\* The batches of b rows of n anchors.
BatchChoices(b, n) ==
    LET rows == RowChoices(n, IF b = 1 THEN Anchors ELSE BatchAnchors)
    IN  {a \in [0 .. b * n - 1 -> Anchors] :
            \A i \in 0 .. b - 1 : [p \in 0 .. n - 1 |-> a[i * n + p]] \in rows}

\* The indices input as get_valid_counts leaves it when the valid anchors of
\* a row are its last valid_count anchors: arange(num_anchors) for a row
\* whose anchors are all valid.
CompactedIndices ==
    [c \in 0 .. batch_size * num_anchors - 1 |->
        LET i == c \div num_anchors
            p == c % num_anchors
        IN  IF p < valid_count[i] THEN num_anchors - valid_count[i] + p ELSE -1]

\* nms_ir on boxes, a sort permutation, valid counts and parameters.
InitNms ==
    /\ pc = "reorder"
    /\ batch_size \in 1 .. MaxBatch
    /\ num_anchors \in 0 .. MaxNmsCells
    /\ batch_size * num_anchors <= MaxNmsCells
    /\ \E a \in BatchChoices(batch_size, num_anchors) : data = Flatten(a)
    /\ sorted_index \in [0 .. batch_size * num_anchors - 1 -> 0 .. num_anchors - 1]
    /\ IsSorted(sorted_index)
    /\ valid_count \in [0 .. batch_size - 1 -> 0 .. num_anchors]
    /\ indices = CompactedIndices
    /\ max_output_size \in {-1, 2}
    /\ iou_threshold \in IouThresholds
    /\ id_index \in {-1, 0}
    /\ force_suppress \in (IF id_index < 0 THEN {FALSE} ELSE BOOLEAN)
    /\ top_k \in {-1, 2}
    /\ return_indices \in BOOLEAN
    /\ \E junk \in {3} :
           /\ out = Uninit(batch_size * num_anchors * elem_length, junk * FloatScale)
           /\ box_indices = Uninit(batch_size * num_anchors, junk)
           /\ num_valid_boxes = Uninit(batch_size, junk)
    /\ num_valid_boxes_local = [i \in 0 .. batch_size - 1 |-> 0]
    /\ nms_j = [i \in 0 .. batch_size - 1 |-> 0]
    /\ row_pc = [i \in 0 .. batch_size - 1 |-> "loop"]
    /\ accessed = {}
    /\ score_threshold = 0
    /\ valid_boxes = << >>
    /\ valid_indices = << >>
    /\ l2_width = 0
    /\ out_indices = << >>
    /\ AuxIdle

NextNms ==
    \/ Reorder
    \/ \E i \in 0 .. batch_size - 1 :
           \/ NmsOuterStep(i)
           \/ NmsFinish(i)
           \/ NmsNoSuppression(i)

SpecNms == InitNms /\ [][NextNms]_vars

\* Boxes without area and boxes around them: a vertical segment, the same
\* segment with score 0, a horizontal segment with its corners swapped, a
\* point, the square that contains them all and its lower half (IoU 1/2).
DegenerateAnchors ==
    { Anchor(0, FloatScale + 2, 1, 0, 1, 2),
      Anchor(0, 0, 1, 0, 1, 2),
      Anchor(0, FloatScale + 1, 2, 1, 0, 1),
      Anchor(0, FloatScale, 1, 1, 1, 1),
      Anchor(0, FloatScale + 1, 0, 0, 2, 2),
      Anchor(0, FloatScale, 0, 0, 2, 1) }

\* nms_ir on one row of such boxes, any of them more than once.
InitDegenerate ==
    /\ pc = "reorder"
    /\ batch_size = 1
    /\ num_anchors \in 0 .. MaxDegenerateCells
    /\ \E a \in [0 .. num_anchors - 1 -> DegenerateAnchors] : data = Flatten(a)
    /\ sorted_index \in [0 .. num_anchors - 1 -> 0 .. num_anchors - 1]
    /\ IsSorted(sorted_index)
    /\ valid_count \in [0 .. batch_size - 1 -> 0 .. num_anchors]
    /\ indices = CompactedIndices
    /\ max_output_size \in {-1, 2}
    /\ iou_threshold \in {<< 3, 10 >>, << 1, 2 >>}
    /\ id_index \in {-1, 0}
    /\ force_suppress = FALSE
    /\ top_k \in {-1, 2}
    /\ return_indices = TRUE
    /\ out = Uninit(batch_size * num_anchors * elem_length, 3 * FloatScale)
    /\ box_indices = Uninit(batch_size * num_anchors, 3)
    /\ num_valid_boxes = Uninit(batch_size, 3)
    /\ num_valid_boxes_local = [i \in 0 .. batch_size - 1 |-> 0]
    /\ nms_j = [i \in 0 .. batch_size - 1 |-> 0]
    /\ row_pc = [i \in 0 .. batch_size - 1 |-> "loop"]
    /\ accessed = {}
    /\ score_threshold = 0
    /\ valid_boxes = << >>
    /\ valid_indices = << >>
    /\ l2_width = 0
    /\ out_indices = << >>
    /\ AuxIdle

SpecDegenerate == InitDegenerate /\ [][NextNms]_vars

\* nms_ir on one row with every small max_output_size and top_k.
InitTop ==
    /\ pc = "reorder"
    /\ batch_size = 1
    /\ num_anchors \in 0 .. MaxNmsCells
    /\ \E a \in BatchChoices(batch_size, num_anchors) : data = Flatten(a)
    /\ sorted_index \in [0 .. num_anchors - 1 -> 0 .. num_anchors - 1]
    /\ IsSorted(sorted_index)
    /\ valid_count \in [0 .. batch_size - 1 -> 0 .. num_anchors]
    /\ indices = CompactedIndices
    /\ max_output_size \in {-1, 0, 1, 2}
    /\ iou_threshold \in {<< 3, 10 >>, << 1, 2 >>}
    /\ id_index \in {-1, 0}
    /\ force_suppress = FALSE
    /\ top_k \in {-1, 1, 2}
    /\ return_indices = TRUE
    /\ out = Uninit(batch_size * num_anchors * elem_length, 3 * FloatScale)
    /\ box_indices = Uninit(batch_size * num_anchors, 3)
    /\ num_valid_boxes = Uninit(batch_size, 3)
    /\ num_valid_boxes_local = [i \in 0 .. batch_size - 1 |-> 0]
    /\ nms_j = [i \in 0 .. batch_size - 1 |-> 0]
    /\ row_pc = [i \in 0 .. batch_size - 1 |-> "loop"]
    /\ accessed = {}
    /\ score_threshold = 0
    /\ valid_boxes = << >>
    /\ valid_indices = << >>
    /\ l2_width = 0
    /\ out_indices = << >>
    /\ AuxIdle

SpecTop == InitTop /\ [][NextNms]_vars

\* nms_ir has completed for row i.
RowDone(i) == pc = "suppress" /\ row_pc[i] = "done"

\* nms_ir has completed.
NmsDone == \A i \in 0 .. batch_size - 1 : RowDone(i)

(* ------------- nms_ir: the second kernel, thread by thread ------------ *)

\* The threads of the second kernel: one block of max_threads threads per row.
NmsThreads == (0 .. batch_size - 1) \X (0 .. max_threads - 1)

\* k = j + 1 + _k * nthread_tx + tx
InnerKNoTx(jj, kk, tx) == jj + 1 + kk * max_threads
InnerK(jj, kk, tx) == jj + 1 + kk * max_threads + tx

\* num_iter_per_thread = ceil_div(nkeep - (j + 1), nthread_tx): the same in
\* every thread tx of the row.
NumIterOwnSlots(i, jj, tx) == ceil_div(nkeep(i) - (jj + 1) - tx, max_threads)
num_iter_per_thread(i, jj, tx) == ceil_div(nkeep(i) - (jj + 1), max_threads)

\* The cells of box p of row i: its score, its class id, its coordinates.
ScoreCell(i, p) == i * num_anchors * elem_length + p * elem_length + score_index
IdCells(i, p) ==
    IF id_index >= 0
    THEN {i * num_anchors * elem_length + p * elem_length + id_index}
    ELSE {}
CoordCells(i, p) ==
    {i * num_anchors * elem_length + p * elem_length + coord_start + c : c \in 0 .. 3}

\* The cells of out one inner iteration on box k against box j reads.
InnerReads(i, jj, k) ==
    {ScoreCell(i, k)} \cup IdCells(i, k) \cup IdCells(i, jj)
        \cup CoordCells(i, jj) \cup CoordCells(i, k)

\* The cells it writes when it invalidates box k.
InnerWrites(i, k) == {ScoreCell(i, k)} \cup IdCells(i, k)

\* tvm_storage_sync: a thread waiting at its n-th barrier goes on when every
\* thread of its block has arrived at its n-th barrier.
BarrierIgnored(i, tx) == TRUE
BarrierOpen(i, tx) ==
    \A t \in 0 .. max_threads - 1 :
        thread[<< i, t >>].syncs >= thread[<< i, tx >>].syncs

\* What the threads of the second kernel leave alone.
NmsThreadFrame ==
    UNCHANGED << pc, batch_size, num_anchors, data, score_threshold, id_index,
                 valid_boxes, valid_indices, valid_count, l2_width, out_indices,
                 sorted_index, indices, num_valid_boxes_local, nms_j,
                 max_output_size, iou_threshold, force_suppress, top_k,
                 return_indices, row_pc, accessed, pending, iou_result, run,
                 first_run >>

\* The second kernel is launched: num_valid_boxes_local[0] = 0 in every thread.
LaunchSuppress ==
    /\ pc = "suppress"
    /\ thread = << >>
    /\ thread' = [t \in NmsThreads |->
                      [pc |-> "outer", j |-> 0, kk |-> 0, local |-> 0, syncs |-> 0]]
    /\ reads' = [t \in NmsThreads |-> {}]
    /\ writes' = [t \in NmsThreads |-> {}]
    /\ UNCHANGED << out, box_indices, num_valid_boxes >>
    /\ NmsThreadFrame

\* The else branch: every thread of the row writes num_valid_boxes[i] = 0.
ThreadNoSuppression(i, tx) ==
    /\ thread # << >>
    /\ thread[<< i, tx >>].pc = "outer"
    /\ ~SuppressionPath(iou_threshold, i)
    /\ num_valid_boxes' = [num_valid_boxes EXCEPT ![i] = 0]
    /\ thread' = [thread EXCEPT ![<< i, tx >>].pc = "done"]
    /\ UNCHANGED << out, box_indices, reads, writes >>
    /\ NmsThreadFrame

\* The outer loop has ended: thread 0 publishes its counter.
ThreadPublish(i, tx) ==
    /\ thread # << >>
    /\ thread[<< i, tx >>].pc = "outer"
    /\ SuppressionPath(iou_threshold, i)
    /\ thread[<< i, tx >>].j >= nkeep(i)
    /\ num_valid_boxes' = IF tx = 0
                          THEN [num_valid_boxes EXCEPT ![i] = thread[<< i, tx >>].local]
                          ELSE num_valid_boxes
    /\ thread' = [thread EXCEPT ![<< i, tx >>].pc = "done"]
    /\ UNCHANGED << out, box_indices, reads, writes >>
    /\ NmsThreadFrame

\* One thread tests box j and, if it proceeds, enters nms_inner_loop:
\* thread 0 records the index, every thread counts the box.
ThreadOuterTest(i, tx) ==
    /\ thread # << >>
    /\ thread[<< i, tx >>].pc = "outer"
    /\ SuppressionPath(iou_threshold, i)
    /\ thread[<< i, tx >>].j < nkeep(i)
    /\ LET me == thread[<< i, tx >>]
       IN  /\ reads' = [reads EXCEPT ![<< i, tx >>] = @ \cup {ScoreCell(i, me.j)}]
           /\ IF RunsInner(out, i, me.j, me.local)
              THEN /\ box_indices' =
                          IF return_indices /\ tx = 0
                          THEN [box_indices EXCEPT ![i * num_anchors + me.local] =
                                   indices[i * num_anchors
                                           + sorted_index[i * num_anchors + me.j]]]
                          ELSE box_indices
                   /\ thread' = [thread EXCEPT ![<< i, tx >>] =
                                     [me EXCEPT !.local = @ + 1, !.kk = 0,
                                                !.pc = "inner"]]
              ELSE /\ box_indices' = box_indices
                   /\ thread' = [thread EXCEPT ![<< i, tx >>].j = @ + 1]
    /\ UNCHANGED << out, num_valid_boxes, writes >>
    /\ NmsThreadFrame

\* One iteration of the inner loop of one thread, up to the barrier; or the
\* end of the inner loop.
ThreadInner(i, tx) ==
    /\ thread # << >>
    /\ thread[<< i, tx >>].pc = "inner"
    /\ LET me == thread[<< i, tx >>]
           k == InnerK(me.j, me.kk, tx)
           o == InnerThread(out, i, me.j, k, iou_threshold)
       IN  IF me.kk >= num_iter_per_thread(i, me.j, tx)
           THEN /\ thread' = [thread EXCEPT ![<< i, tx >>] =
                                  [me EXCEPT !.j = @ + 1, !.pc = "outer"]]
                /\ UNCHANGED << out, reads, writes >>
           ELSE /\ thread' = [thread EXCEPT ![<< i, tx >>] =
                                  [me EXCEPT !.syncs = @ + 1, !.pc = "barrier"]]
                /\ IF k < nkeep(i)
                   THEN /\ out' = o
                        /\ reads' = [reads EXCEPT ![<< i, tx >>] =
                                         @ \cup InnerReads(i, me.j, k)]
                        /\ writes' = [writes EXCEPT ![<< i, tx >>] =
                                          IF o # out THEN @ \cup InnerWrites(i, k)
                                          ELSE @]
                   ELSE UNCHANGED << out, reads, writes >>
    /\ UNCHANGED << box_indices, num_valid_boxes >>
    /\ NmsThreadFrame

\* A thread leaves the barrier and starts its next barrier interval.
ThreadBarrier(i, tx) ==
    /\ thread # << >>
    /\ thread[<< i, tx >>].pc = "barrier"
    /\ BarrierOpen(i, tx)
    /\ thread' = [thread EXCEPT ![<< i, tx >>] =
                      [@ EXCEPT !.kk = @ + 1, !.pc = "inner"]]
    /\ reads' = [reads EXCEPT ![<< i, tx >>] = {}]
    /\ writes' = [writes EXCEPT ![<< i, tx >>] = {}]
    /\ UNCHANGED << out, box_indices, num_valid_boxes >>
    /\ NmsThreadFrame

\* nms_ir on one row whose boxes are all valid, without top_k.
InitNmsThreads ==
    /\ InitNms
    /\ batch_size = 1
    /\ \A i \in 0 .. batch_size - 1 : valid_count[i] = num_anchors
    /\ iou_threshold \in {<< 0, 1 >>, << 1, 2 >>}
    /\ top_k = -1
    /\ return_indices

NextNmsThreads ==
    \/ Reorder
    \/ LaunchSuppress
    \/ \E t \in NmsThreads :
           \/ ThreadNoSuppression(t[1], t[2])
           \/ ThreadPublish(t[1], t[2])
           \/ ThreadOuterTest(t[1], t[2])
           \/ ThreadInner(t[1], t[2])
           \/ ThreadBarrier(t[1], t[2])

SpecNmsThreads == InitNmsThreads /\ [][NextNmsThreads]_vars

\* Every thread of the block of row i has completed.
ThreadsDone(i) ==
    /\ thread # << >>
    /\ \A tx \in 0 .. max_threads - 1 : thread[<< i, tx >>].pc = "done"

\* The anchors of a row run thread by thread to the end: four overlapping
\* boxes of positive score and a box of score -1.
BlockAnchors ==
    { Anchor(0, FloatScale + 2, 1, 0, 3, 2),
      Anchor(0, FloatScale + 1, 0, 0, 4, 1),
      Anchor(0, FloatScale, 0, 0, 2, 1),
      Anchor(1, FloatScale, 2, 0, 4, 1),
      SentinelAnchor }

\* nms_ir on one row of boxes without class ids, any valid count, with and
\* without top_k and max_output_size.
InitNmsBlock ==
    /\ InitNms
    /\ batch_size = 1
    /\ id_index < 0
    /\ \A p \in 0 .. num_anchors - 1 :
           [k \in 1 .. elem_length |-> data[p * elem_length + k - 1]] \in BlockAnchors
    /\ iou_threshold \in {<< 0, 1 >>, << 1, 2 >>}
    /\ return_indices

\* A step of thread tx of the block of row i.
ThreadStep(i, tx) ==
    /\ i < batch_size
    /\ \/ ThreadNoSuppression(i, tx)
       \/ ThreadPublish(i, tx)
       \/ ThreadOuterTest(i, tx)
       \/ ThreadInner(i, tx)
       \/ ThreadBarrier(i, tx)

\* The host launches its kernels, and the device runs every thread of a
\* resident block that can take a step: a block of max_threads threads per
\* row is resident as a whole.
SpecNmsBlock ==
    /\ InitNmsBlock
    /\ [][NextNmsThreads]_vars
    /\ WF_vars(Reorder \/ LaunchSuppress)
    /\ \A i \in 0 .. MaxBatch - 1 : \A tx \in 0 .. max_threads - 1 :
           WF_vars(ThreadStep(i, tx))

(* ------------- nms_ir invoked twice: with and without class ids -------- *)

\* The output buffers and counters of nms_ir before it is launched.
NmsReset ==
    /\ out' = Uninit(batch_size * num_anchors * elem_length, 3 * FloatScale)
    /\ box_indices' = Uninit(batch_size * num_anchors, 3)
    /\ num_valid_boxes' = Uninit(batch_size, 3)
    /\ num_valid_boxes_local' = [i \in 0 .. batch_size - 1 |-> 0]
    /\ nms_j' = [i \in 0 .. batch_size - 1 |-> 0]
    /\ row_pc' = [i \in 0 .. batch_size - 1 |-> "loop"]
    /\ accessed' = {}
    /\ pc' = "reorder"

\* After a run with id_index < 0, nms_ir is invoked again on the same boxes
\* with every class id set to c, id_index = 0 and force_suppress = true.
RunGated(c) ==
    /\ run = 1
    /\ NmsDone
    /\ first_run' = [data |-> data, out |-> out, box_indices |-> box_indices,
                     num_valid_boxes |-> num_valid_boxes]
    /\ run' = 2
    /\ id_index' = 0
    /\ force_suppress' = TRUE
    /\ data' = [x \in DOMAIN data |->
                   IF x % elem_length = 0 THEN c * FloatScale ELSE data[x]]
    /\ NmsReset
    /\ UNCHANGED << batch_size, num_anchors, score_threshold, valid_boxes,
                    valid_indices, valid_count, l2_width, out_indices,
                    sorted_index, indices, max_output_size, iou_threshold, top_k,
                    return_indices, pending, thread, reads, writes, iou_result >>

\* The first invocation: one row, class gating disabled.
InitGate ==
    /\ InitNms
    /\ batch_size = 1
    /\ id_index < 0

NextGate ==
    \/ NextNms
    \/ \E c \in 0 .. 1 : RunGated(c)

SpecGate == InitGate /\ [][NextGate]_vars

(* ---------- get_valid_counts, then non_max_suppression; twice ---------- *)

\* The anchors of the row that is the same in both invocations (IoU 1/2
\* between the first two, the third has score 0), of the other row in the
\* first invocation, and of the other row in the second invocation.
RowPool ==
    { Anchor(0, FloatScale + 1, 0, 0, 4, 1),
      Anchor(0, FloatScale, 0, 0, 2, 1),
      Anchor(0, 0, 3, 2, 1, 0) }
FirstPool ==
    { Anchor(0, FloatScale + 1, 0, 0, 4, 1) }
OtherPool ==
    { Anchor(0, FloatScale + 1, 0, 0, 4, 1),
      Anchor(0, 0, 3, 2, 1, 0) }

\* The batches of two rows whose row r is drawn from RowPool and whose
\* other row is drawn from pool.
RowBatches(r, pool) ==
    {a \in [0 .. 2 * num_anchors - 1 -> RowPool] :
        \A c \in 0 .. 2 * num_anchors - 1 :
            c \div num_anchors # r => a[c] \in pool}

\* The sorter's contract on the boxes d.
SortedOn(si, d) ==
    \A i \in 0 .. batch_size - 1 :
        /\ {si[i * num_anchors + p] : p \in 0 .. num_anchors - 1} = 0 .. num_anchors - 1
        /\ \A p \in 0 .. num_anchors - 2 :
               d[(i * num_anchors + si[i * num_anchors + p]) * elem_length + score_index]
                   >= d[(i * num_anchors + si[i * num_anchors + p + 1]) * elem_length
                        + score_index]

\* Buffers f and g agree on the len cells per anchor of row i.
RowEq(f, g, i, len) ==
    \A c \in i * num_anchors * len .. (i + 1) * num_anchors * len - 1 : f[c] = g[c]

\* non_max_suppression is applied to the outputs of get_valid_counts: the
\* compacted boxes are sorted by score and handed to nms_ir.
CallNms ==
    /\ run = 1
    /\ pc = "compacted"
    /\ first_run' = [row |-> first_run.row, input |-> data]
    /\ data' = out
    /\ indices' = out_indices
    /\ sorted_index' \in [0 .. batch_size * num_anchors - 1 -> 0 .. num_anchors - 1]
    /\ SortedOn(sorted_index', out)
    /\ iou_threshold' \in {<< 0, 1 >>, << 1, 2 >>}
    /\ max_output_size' = -1
    /\ top_k' = -1
    /\ return_indices' = TRUE
    /\ NmsReset
    /\ UNCHANGED << batch_size, num_anchors, score_threshold, id_index, valid_boxes,
                    valid_indices, valid_count, l2_width, out_indices,
                    force_suppress, pending, thread, reads, writes, iou_result, run >>

\* The second invocation of get_valid_counts: row first_run.row as in the
\* first invocation, other anchors in the other row.
Rerun ==
    /\ run = 1
    /\ NmsDone
    /\ first_run' = [row |-> first_run.row, input |-> first_run.input,
                     valid_boxes |-> valid_boxes, valid_indices |-> valid_indices,
                     valid_count |-> valid_count, compacted |-> data,
                     out_indices |-> out_indices, sorted_index |-> sorted_index,
                     iou_threshold |-> iou_threshold, out |-> out,
                     box_indices |-> box_indices,
                     num_valid_boxes |-> num_valid_boxes]
    /\ run' = 2
    /\ \E a \in RowBatches(first_run.row, OtherPool) :
           /\ RowEq(Flatten(a), first_run.input, first_run.row, elem_length)
           /\ data' = Flatten(a)
    /\ valid_boxes' = Uninit(batch_size * num_anchors, 3)
    /\ valid_indices' = Uninit(batch_size * num_anchors, 3)
    /\ valid_count' = Uninit(batch_size, 3)
    /\ out' = Uninit(batch_size * num_anchors * elem_length, 3 * FloatScale)
    /\ out_indices' = Uninit(batch_size * num_anchors, 3)
    /\ l2_width' = 0
    /\ pc' = "filter"
    /\ UNCHANGED << batch_size, num_anchors, score_threshold, id_index, nmsVars,
                    pending, thread, reads, writes, iou_result >>

\* The second invocation of non_max_suppression: the parameters of the
\* first, and a sort permutation that agrees with the first on the row.
CallNmsAgain ==
    /\ run = 2
    /\ pc = "compacted"
    /\ data' = out
    /\ indices' = out_indices
    /\ sorted_index' \in [0 .. batch_size * num_anchors - 1 -> 0 .. num_anchors - 1]
    /\ SortedOn(sorted_index', out)
    /\ RowEq(sorted_index', first_run.sorted_index, first_run.row, 1)
    /\ NmsReset
    /\ UNCHANGED << batch_size, num_anchors, score_threshold, id_index, valid_boxes,
                    valid_indices, valid_count, l2_width, out_indices,
                    max_output_size, iou_threshold, force_suppress, top_k,
                    return_indices, auxVars >>

InitRows ==
    /\ pc = "filter"
    /\ batch_size = 2
    /\ num_anchors \in 0 .. MaxRowAnchors
    /\ run = 1
    /\ \E r \in 0 .. 1 :
           /\ first_run = [row |-> r]
           /\ \E a \in RowBatches(r, FirstPool) : data = Flatten(a)
    /\ score_threshold = 0
    /\ id_index = -1
    /\ valid_boxes = Uninit(batch_size * num_anchors, 3)
    /\ valid_indices = Uninit(batch_size * num_anchors, 3)
    /\ valid_count = Uninit(batch_size, 3)
    /\ out = Uninit(batch_size * num_anchors * elem_length, 3 * FloatScale)
    /\ out_indices = Uninit(batch_size * num_anchors, 3)
    /\ l2_width = 0
    /\ NmsIdle
    /\ ThreadsIdle
    /\ IouIdle

NextRows ==
    \/ NextCounts
    \/ CallNms
    \/ NextNms
    \/ Rerun
    \/ CallNmsAgain

SpecRows == InitRows /\ [][NextRows]_vars

(* ------------------------------ claims -------------------------------- *)

\* Number of valid anchors of a row among the anchors before j.
MaskCount(row, j) ==
    Cardinality({i \in 0 .. j - 1 : valid_boxes[row * num_anchors + i] = 1})

\* C1: after get_valid_indices_ir, valid_indices[row][j] is the number of
\* i < j with mask[row][i] = 1 and valid_count[row] is the number of 1s of
\* the row (so it is the last destination plus the last mask bit, and 0 when
\* num_anchors = 0), for every batch size, num_anchors and mask.
C1_ExclusiveScan ==
    pc = "scanned" =>
        \A row \in 0 .. batch_size - 1 :
            /\ \A j \in 0 .. num_anchors - 1 :
                   valid_indices[row * num_anchors + j] = MaskCount(row, j)
            /\ valid_count[row] = MaskCount(row, num_anchors)
            /\ num_anchors > 0 =>
                   valid_count[row] =
                       valid_indices[row * num_anchors + num_anchors - 1]
                       + valid_boxes[row * num_anchors + num_anchors - 1]
            /\ num_anchors = 0 => valid_count[row] = 0

\* A scan of two rows of three anchors (not a power of two) has completed.
C1_Witness ==
    /\ pc = "scanned"
    /\ batch_size = 2
    /\ num_anchors = 3
    /\ valid_count[0] = 2
    /\ valid_count[1] = 3
    /\ valid_boxes[0] = 0

\* The valid anchors of a row, in increasing order of their ids.
ValidIds(row) == {i \in 0 .. num_anchors - 1 : valid_boxes[row * num_anchors + i] = 1}

\* C2: after filter, scan and get_valid_counts_ir, out_indices[row][0 ..
\* valid_count[row]-1] is the increasing sequence of the anchor ids whose
\* mask is 1, and slot p holds every field of anchor out_indices[row][p].
C2_CompactionStable ==
    pc = "compacted" =>
        \A row \in 0 .. batch_size - 1 :
            /\ valid_count[row] = Cardinality(ValidIds(row))
            /\ {out_indices[row * num_anchors + p] : p \in 0 .. valid_count[row] - 1}
                   = ValidIds(row)
            /\ \A p, q \in 0 .. valid_count[row] - 1 :
                   p < q => out_indices[row * num_anchors + p]
                                < out_indices[row * num_anchors + q]
            /\ \A p \in 0 .. valid_count[row] - 1 :
                   \A k \in 0 .. elem_length - 1 :
                       out[(row * num_anchors + p) * elem_length + k] =
                           data[(row * num_anchors + out_indices[row * num_anchors + p])
                                    * elem_length + k]

\* A row of three anchors whose first anchor is invalid and whose other two
\* anchors are valid and distinct has been compacted.
C2_Witness ==
    /\ pc = "compacted"
    /\ num_anchors = 3
    /\ valid_boxes[0] = 0
    /\ valid_count[0] = 2
    /\ out_indices[0] = 1
    /\ out_indices[1] = 2
    /\ \E k \in 0 .. elem_length - 1 : out[k] # out[elem_length + k]

(* Claims about nms_ir.  Slot p of row i of out is read with OutField, the  *)
(* box Phase A materialises there (rank p of the sort) with RankedField.    *)

OutField(i, p, k) == out[(i * num_anchors + p) * elem_length + k]
DataField(i, p, k) == data[(i * num_anchors + p) * elem_length + k]
RankedField(i, p, k) == DataField(i, sorted_index[i * num_anchors + p], k)

\* Slot p of row i holds a live score: not the sentinel -1.
Alive(i, p) == OutField(i, p, score_index) # -FloatScale

\* The IoU of the boxes of ranks p and q of row i is at least thr.
RankedIouAtLeast(i, p, q, thr) ==
    LET r == calculate_overlap(
                 data,
                 (i * num_anchors + sorted_index[i * num_anchors + p]) * elem_length
                     + coord_start,
                 (i * num_anchors + sorted_index[i * num_anchors + q]) * elem_length
                     + coord_start)
    IN  r[1] * thr[2] >= thr[1] * r[2]

\* The class policy on the boxes of ranks p and q.
RankedPolicy(i, p, q) ==
    \/ force_suppress
    \/ id_index < 0
    \/ RankedField(i, p, id_index) = RankedField(i, q, id_index)

\* Rank p suppresses rank q: class policy and IoU at the threshold.
Suppresses(i, p, q) ==
    RankedPolicy(i, p, q) /\ RankedIouAtLeast(i, p, q, iou_threshold)

OnSuppressionPath(i) == iou_threshold[1] > 0 /\ valid_count[i] > 0

\* C3: on the suppression path with max_output_size <= 0 and positive
\* materialised scores, at completion the box at position k < nkeep is
\* alive iff no alive box at an earlier position passes the class policy
\* with IoU >= iou_threshold, and num_valid_boxes counts the alive boxes.
C3_GreedyResult ==
    \A i \in 0 .. batch_size - 1 :
        ( /\ RowDone(i)
          /\ OnSuppressionPath(i)
          /\ max_output_size <= 0
          /\ \A p \in 0 .. nkeep(i) - 1 : RankedField(i, p, score_index) > 0 )
        => /\ \A k \in 0 .. nkeep(i) - 1 :
                  Alive(i, k) <=>
                      ~ \E p \in 0 .. k - 1 : Alive(i, p) /\ Suppresses(i, p, k)
           /\ num_valid_boxes[i]
                  = Cardinality({k \in 0 .. nkeep(i) - 1 : Alive(i, k)})

\* Of four boxes with positive scores the second was suppressed by the first
\* and the third and fourth were kept.
C3_Witness ==
    /\ RowDone(0)
    /\ OnSuppressionPath(0)
    /\ max_output_size <= 0
    /\ nkeep(0) = 4
    /\ \A p \in 0 .. 3 : RankedField(0, p, score_index) > 0
    /\ Alive(0, 0) /\ ~Alive(0, 1) /\ Alive(0, 2) /\ Alive(0, 3)
    /\ num_valid_boxes[0] = 3

\* C4 (the claim as stated): a box is alive exactly when its score is not
\* -1, so at completion every box k < nkeep behind a kept box j that passes
\* the class policy with IoU >= iou_threshold has been invalidated, also a box
\* whose score is 0 or between -1 and 0.
C4_Claim_LiveBoxInvalidated ==
    \A i \in 0 .. batch_size - 1 :
        (RowDone(i) /\ OnSuppressionPath(i)) =>
            \A p \in KeptSet(i, iou_threshold) :
                \A k \in p + 1 .. nkeep(i) - 1 :
                    Suppresses(i, p, k) => ~Alive(i, k)

\* C5: with max_output_size > 0 the running kept counter never exceeds
\* max_output_size, and neither does num_valid_boxes once written.
C5_MaxOutputSizeCap ==
    max_output_size > 0 =>
        \A i \in 0 .. batch_size - 1 :
            /\ pc = "suppress" => num_valid_boxes_local[i] <= max_output_size
            /\ RowDone(i) => num_valid_boxes[i] <= max_output_size

\* The cap stopped the loop: two boxes were counted and a third is alive.
C5_Witness ==
    /\ RowDone(0)
    /\ max_output_size = 2
    /\ num_valid_boxes[0] = 2
    /\ nkeep(0) >= 3
    /\ Cardinality({p \in 0 .. nkeep(0) - 1 :
                       OutField(0, p, score_index) > -FloatScale}) >= 3

\* thr1 < thr2 for thresholds with positive denominators.
ThresholdLess(thr1, thr2) == thr1[1] * thr2[2] < thr2[1] * thr1[2]

\* C6 (the claim as stated): for any two thresholds 0 < t1 < t2 and
\* everything else fixed, the number of boxes kept with t1 is at most the
\* number kept with t2.
C6_Claim_Monotone ==
    \A i \in 0 .. batch_size - 1 :
        (RowDone(i) /\ OnSuppressionPath(i)) =>
            \A t1 \in IouThresholds :
                (t1[1] > 0 /\ ThresholdLess(t1, iou_threshold)) =>
                    Cardinality(KeptSet(i, t1)) <= num_valid_boxes[i]

\* C6 (amended): the same, for rows in which at most three boxes are
\* materialised (nkeep <= 3).
C6_MonotoneUpToThree ==
    \A i \in 0 .. batch_size - 1 :
        (RowDone(i) /\ OnSuppressionPath(i) /\ nkeep(i) <= 3) =>
            \A t1 \in IouThresholds :
                (t1[1] > 0 /\ ThresholdLess(t1, iou_threshold)) =>
                    Cardinality(KeptSet(i, t1)) <= num_valid_boxes[i]

\* Three boxes, all kept at threshold 1/2 and only two of them at 3/10.
C6_Witness ==
    /\ RowDone(0)
    /\ nkeep(0) = 3
    /\ iou_threshold = << 1, 2 >>
    /\ num_valid_boxes[0] = 3
    /\ Cardinality(KeptSet(0, << 3, 10 >>)) = 2

\* The slots among the first valid_count of row i that hold a live box.
Survivors(i) == {p \in 0 .. valid_count[i] - 1 : Alive(i, p)}

\* C7 (the claim as stated): with iou_threshold = 0 and valid_count >= 1,
\* at most one box of the row survives in the output.
C7_Claim_AtMostOne ==
    \A i \in 0 .. batch_size - 1 :
        (RowDone(i) /\ iou_threshold[1] = 0 /\ valid_count[i] >= 1) =>
            Cardinality(Survivors(i)) <= 1

\* C7 (amended): with iou_threshold = 0 and valid_count >= 1 nothing is
\* suppressed: the surviving boxes are the boxes among the first
\* valid_count inputs whose score is not -1, each in its input slot, and
\* num_valid_boxes is 0.
C7_ThresholdZeroKeepsAll ==
    \A i \in 0 .. batch_size - 1 :
        (RowDone(i) /\ iou_threshold[1] = 0 /\ valid_count[i] >= 1) =>
            /\ Survivors(i) = {p \in 0 .. valid_count[i] - 1 :
                                  DataField(i, p, score_index) # -FloatScale}
            /\ num_valid_boxes[i] = 0

\* Threshold 0, and two overlapping boxes of one class both survive.
C7_Witness ==
    /\ RowDone(0)
    /\ iou_threshold[1] = 0
    /\ valid_count[0] >= 2
    /\ id_index >= 0
    /\ Cardinality(Survivors(0)) >= 2
    /\ \E p, q \in Survivors(0) :
           /\ p < q
           /\ DataField(0, p, score_index) > 0
           /\ DataField(0, q, score_index) > 0
           /\ DataField(0, p, id_index) = DataField(0, q, id_index)

\* C8: if iou_threshold <= 0 or valid_count[row] = 0, the row is not
\* suppressed: once the first kernel has run, out[row][p] is data[row][p] in
\* every field for p < valid_count[row], in the input order, at every later
\* step, and the suppression loop reads no slot of the row.
C8_IdentityPass ==
    \A i \in 0 .. batch_size - 1 :
        (pc = "suppress" /\ (iou_threshold[1] <= 0 \/ valid_count[i] = 0)) =>
            /\ \A p \in 0 .. valid_count[i] - 1 :
                   \A k \in 0 .. elem_length - 1 :
                       OutField(i, p, k) = DataField(i, p, k)
            /\ \A a \in accessed : a[1] # i
            /\ num_valid_boxes_local[i] = 0

\* A row that is not suppressed has completed with its boxes in the input
\* order, which is not the order of the scores.
C8_Witness ==
    /\ RowDone(0)
    /\ iou_threshold[1] <= 0
    /\ valid_count[0] >= 2
    /\ sorted_index[0] # 0
    /\ OutField(0, 0, score_index) < OutField(0, 1, score_index)

\* The p-th kept position of row i (p = 0 for the first).
KeptAt(i, p) ==
    LET ks == KeptSet(i, iou_threshold)
    IN  CHOOSE jj \in ks : Cardinality({x \in ks : x < jj}) = p

\* C9 (the claim as stated): with return_indices, at completion of every
\* row box_indices[row][p] is indices[row][sorted_index[row][j_p]] for
\* p < num_valid_boxes[row], j_p the p-th kept position, and -1 for
\* num_valid_boxes[row] <= p < num_anchors.
C9_Claim_IndexMapping ==
    \A i \in 0 .. batch_size - 1 :
        (RowDone(i) /\ return_indices) =>
            /\ \A p \in 0 .. num_valid_boxes[i] - 1 :
                   box_indices[i * num_anchors + p] =
                       indices[i * num_anchors
                               + sorted_index[i * num_anchors + KeptAt(i, p)]]
            /\ \A p \in num_valid_boxes[i] .. num_anchors - 1 :
                   box_indices[i * num_anchors + p] = -1

\* The same on the suppression path only, where it holds.
C9_OnSuppressionPath ==
    \A i \in 0 .. batch_size - 1 :
        (RowDone(i) /\ return_indices /\ OnSuppressionPath(i)) =>
            /\ num_valid_boxes[i] = Cardinality(KeptSet(i, iou_threshold))
            /\ \A p \in 0 .. num_valid_boxes[i] - 1 :
                   box_indices[i * num_anchors + p] =
                       indices[i * num_anchors
                               + sorted_index[i * num_anchors + KeptAt(i, p)]]
            /\ \A p \in num_valid_boxes[i] .. num_anchors - 1 :
                   box_indices[i * num_anchors + p] = -1

\* C10: on the suppression path nkeep = min(top_k, valid_count) if
\* top_k > 0 else valid_count; right after Phase A slot p < nkeep holds the
\* record data[sorted_index[p]], with non-increasing scores; every slot from
\* nkeep on holds -1 in every field; Phase B reads no slot >= nkeep and
\* counts at most nkeep boxes.
C10_PhaseATopK ==
    \A i \in 0 .. batch_size - 1 :
        (pc = "suppress" /\ OnSuppressionPath(i)) =>
            /\ nkeep(i) = IF top_k > 0 THEN Min(top_k, valid_count[i])
                          ELSE valid_count[i]
            /\ nms_j[i] = 0 =>
                   /\ \A p \in 0 .. nkeep(i) - 1 :
                          \A k \in 0 .. elem_length - 1 :
                              OutField(i, p, k) = RankedField(i, p, k)
                   /\ \A p \in 0 .. nkeep(i) - 2 :
                          OutField(i, p, score_index)
                              >= OutField(i, p + 1, score_index)
            /\ \A p \in nkeep(i) .. num_anchors - 1 :
                   \A k \in 0 .. elem_length - 1 :
                       OutField(i, p, k) = -FloatScale
            /\ \A a \in accessed : a[1] = i => a[2] < nkeep(i)
            /\ num_valid_boxes_local[i] <= nkeep(i)
            /\ RowDone(i) => num_valid_boxes[i] <= nkeep(i)

\* top_k = 2 of four valid boxes: two slots were read, both boxes kept.
C10_Witness ==
    /\ RowDone(0)
    /\ OnSuppressionPath(0)
    /\ top_k = 2
    /\ valid_count[0] = 4
    /\ num_valid_boxes[0] = 2
    /\ accessed = {<< 0, 0 >>, << 0, 1 >>}
    /\ sorted_index[0] # 0

\* The mask the filter rule assigns to anchor j of row i.
FilterRule(i, j) ==
    IF /\ DataField(i, j, score_index) > score_threshold
       /\ \/ id_index < 0
          \/ DataField(i, j, id_index) >= 0
    THEN 1 ELSE 0

\* Every anchor carries the mask of the filter rule once the filter has run.
MaskFollowsRule ==
    pc # "filter" =>
        \A i \in 0 .. batch_size - 1 :
            \A j \in 0 .. num_anchors - 1 :
                valid_boxes[i * num_anchors + j] = FilterRule(i, j)

\* C11: for every anchor of every row get_valid_boxes_ir writes mask 1 iff
\* score > score_threshold (a score equal to the threshold is invalid) and
\* (id_index < 0 or class id >= 0), and 0 otherwise; no step modifies data.
C11_ValidBoxFilter == [] MaskFollowsRule /\ [][data' = data]_vars

\* The filter has run on three anchors with the class gate on: one is valid,
\* one has its score at the threshold, one has a negative class id.
C11_Witness ==
    /\ pc = "copy"
    /\ num_anchors = 3
    /\ id_index = 0
    /\ score_threshold = FloatScale
    /\ valid_boxes[0] = 1
    /\ valid_boxes[1] = 0 /\ DataField(0, 1, score_index) = score_threshold
    /\ valid_boxes[2] = 0 /\ DataField(0, 2, score_index) > score_threshold
    /\ DataField(0, 2, id_index) < 0

\* C13 (the claim as stated): the destination indices of the valid anchors
\* of a row increase strictly in anchor order, and the destination index of
\* a valid anchor is the number of valid anchors at or before it.
C13_Claim_CountAtOrBefore ==
    pc = "scanned" =>
        \A row \in 0 .. batch_size - 1 :
            /\ \A j, k \in ValidIds(row) :
                   j < k => valid_indices[row * num_anchors + j]
                                < valid_indices[row * num_anchors + k]
            /\ \A j \in ValidIds(row) :
                   valid_indices[row * num_anchors + j] = MaskCount(row, j + 1)

\* C13 (amended): the destination indices of the valid anchors increase
\* strictly, and the destination index of a valid anchor is the number of
\* valid anchors strictly before it: one less than the number at or before.
C13_CountStrictlyBefore ==
    pc = "scanned" =>
        \A row \in 0 .. batch_size - 1 :
            /\ \A j, k \in ValidIds(row) :
                   j < k => valid_indices[row * num_anchors + j]
                                < valid_indices[row * num_anchors + k]
            /\ \A j \in ValidIds(row) :
                   /\ valid_indices[row * num_anchors + j] = MaskCount(row, j + 1) - 1
                   /\ valid_indices[row * num_anchors + j] < valid_count[row]

\* Five anchors, the second, third and fifth valid, have destinations 0, 1, 2.
C13_Witness ==
    /\ pc = "scanned"
    /\ num_anchors = 5
    /\ ValidIds(0) = {1, 2, 4}
    /\ valid_indices[1] = 0
    /\ valid_indices[2] = 1
    /\ valid_indices[4] = 2

C14_UnlimitedOnly ==
    \A i \in 0 .. batch_size - 1 :
        ( /\ RowDone(i)
          /\ OnSuppressionPath(i)
          /\ max_output_size <= 0
          /\ \A p \in 0 .. num_anchors - 1 :
                 DataField(i, p, score_index) # -FloatScale )
        => num_valid_boxes[i]
               = Cardinality({p \in 0 .. num_anchors - 1 : Alive(i, p)})

\* The area of box p of out, corners taken in either order.
BoxArea(p) ==
    LET c == p * elem_length + coord_start
    IN  (Max(out[c], out[c + 2]) - Min(out[c], out[c + 2]))
            * (Max(out[c + 1], out[c + 3]) - Min(out[c + 1], out[c + 3]))

\* C17: calculate_overlap(a, b) = calculate_overlap(b, a) for boxes with
\* corners in any order, so the decision IoU >= iou_threshold is symmetric;
\* 0 <= IoU <= 1; and IoU(a, a) = 1 for a box of positive area.
C17_IouSymmetryBounds ==
    iou_result # << >> =>
        LET ab == iou_result.value
            ba == calculate_overlap(out, iou_result.b * elem_length + coord_start,
                                    iou_result.a * elem_length + coord_start)
        IN  /\ ab = ba
            /\ \A thr \in IouThresholds : RatioGe(ab, thr) <=> RatioGe(ba, thr)
            /\ ab[2] > 0
            /\ 0 <= ab[1]
            /\ ab[1] <= ab[2]
            /\ (iou_result.a = iou_result.b /\ BoxArea(iou_result.a) > 0) => ab[1] = ab[2]

\* The overlap of two different boxes, the first with its corners swapped,
\* was calculated and lies strictly between 0 and 1.
C17_Witness ==
    /\ iou_result # << >>
    /\ iou_result.a = 0
    /\ iou_result.b = 1
    /\ out[coord_start] > out[coord_start + 2]
    /\ out[coord_start + 1] > out[coord_start + 3]
    /\ 0 < iou_result.value[1]
    /\ iou_result.value[1] < iou_result.value[2]

\* C15: nms_ir with id_index < 0 and nms_ir with force_suppress = true,
\* id_index >= 0 and all class ids equal leave the same boxes alive (the
\* same content in every field but the class id), the same num_valid_boxes
\* and the same box_indices.
C15_ClassGatingEquivalence ==
    (run = 2 /\ NmsDone) =>
        /\ \A x \in DOMAIN out :
               x % elem_length # id_index => out[x] = first_run.out[x]
        /\ \A i \in 0 .. batch_size - 1 :
               {p \in 0 .. num_anchors - 1 : Alive(i, p)} =
                   {p \in 0 .. num_anchors - 1 :
                       first_run.out[(i * num_anchors + p) * elem_length + score_index]
                           # -FloatScale}
        /\ num_valid_boxes = first_run.num_valid_boxes
        /\ box_indices = first_run.box_indices

\* Both invocations have completed on boxes of two different classes, and a
\* box was suppressed by a box that had another class id.
C15_Witness ==
    /\ run = 2
    /\ NmsDone
    /\ OnSuppressionPath(0)
    /\ return_indices
    /\ num_valid_boxes[0] >= 1
    /\ \E p \in 0 .. nkeep(0) - 1 :
           /\ ~Alive(0, p)
           /\ first_run.data[sorted_index[p] * elem_length + score_index] > 0
           /\ \A q \in 0 .. p - 1 :
                  first_run.data[sorted_index[q] * elem_length]
                      # first_run.data[sorted_index[p] * elem_length]

\* C19: the threads launched and not yet run all belong to one kernel (one
\* level of the up-sweep or of the down-sweep, or the copy of the totals), so
\* no thread of a level starts before the preceding level has finished, also
\* with more than one block per row; within a level no thread writes a cell
\* another thread reads or writes; and for every order of the threads the
\* result is the exclusive scan of the mask.
C19_ScanLevelOrdering ==
    /\ \A e1, e2 \in pending : e1.k = e2.k /\ e1.w = e2.w
    /\ \A e1, e2 \in pending :
           e1 # e2 => ScanWrites(e1) \cap (ScanReads(e2) \cup ScanWrites(e2)) = {}
    /\ (pc = "scanned" /\ pending = {}) =>
           \A row \in 0 .. batch_size - 1 :
               /\ \A j \in 0 .. num_anchors - 1 :
                      valid_indices[row * num_anchors + j] = MaskCount(row, j)
               /\ valid_count[row] = MaskCount(row, num_anchors)

\* A row of five anchors, more than one block of threads: of the first level
\* of the up-sweep thread 1 has run and has added the third mask bit to the
\* fourth, and thread 0 has not run yet.
C19_Witness ==
    /\ num_anchors = 5
    /\ pc = "up"
    /\ l2_width = 1
    /\ \E e \in pending : e.k = "up" /\ e.t = << 0, 0 >>
    /\ ~ \E e \in pending : e.t = << 0, 1 >>
    /\ valid_boxes[2] = 1
    /\ valid_boxes[3] = 1
    /\ valid_indices[3] = 2

\* C12: no scatter thread is launched while a fill thread has still to run,
\* and after get_valid_counts_ir, for every order of the threads, every
\* slot p >= valid_count[row] holds -1 in all fields and in out_indices,
\* and every slot p < valid_count[row] holds a valid anchor and its id, not
\* the fill.
C12_SentinelFill ==
    /\ \A e1, e2 \in pending : e1.k = e2.k
    /\ (pc = "compacted" /\ pending = {}) =>
           \A row \in 0 .. batch_size - 1 :
               /\ \A p \in valid_count[row] .. num_anchors - 1 :
                      /\ out_indices[row * num_anchors + p] = -1
                      /\ \A k \in 0 .. elem_length - 1 :
                             OutField(row, p, k) = -FloatScale
               /\ \A p \in 0 .. valid_count[row] - 1 :
                      /\ out_indices[row * num_anchors + p] \in ValidIds(row)
                      /\ OutField(row, p, score_index) # -FloatScale
                      /\ \A k \in 0 .. elem_length - 1 :
                             OutField(row, p, k) =
                                 DataField(row, out_indices[row * num_anchors + p], k)

\* Three anchors, the first invalid: the scatter thread of the third anchor
\* has written slot 1 before the thread of the second has written slot 0,
\* which still holds the fill.
C12_Witness ==
    /\ pc = "compacted"
    /\ num_anchors = 3
    /\ valid_count[0] = 2
    /\ \E e \in pending : e.k = "scatter" /\ e.t = << 0, 1 >>
    /\ out_indices[0] = -1
    /\ out_indices[1] = 2
    /\ OutField(0, 1, score_index) > 0
    /\ OutField(0, 2, score_index) = -FloatScale

\* The result of the outer loop of row i run step by step in ascending j,
\* each step with its inner loop run slot by slot.
Sequential(i) ==
    LET r == Reordered(iou_threshold)
    IN  OuterLoop([out |-> r.out, box_indices |-> r.box_indices,
                   kept |-> 0, keptset |-> {}], i, 0, iou_threshold)

\* C18: for every interleaving of the threads of a row that respects the
\* barriers, the final out, box_indices and num_valid_boxes of the row are
\* those of the sequential execution of the outer loop.
C18_DeterministicResult ==
    \A i \in 0 .. batch_size - 1 :
        (ThreadsDone(i) /\ SuppressionPath(iou_threshold, i)) =>
            LET s == Sequential(i)
            IN  /\ \A p \in 0 .. num_anchors - 1 :
                       /\ box_indices[i * num_anchors + p]
                              = s.box_indices[i * num_anchors + p]
                       /\ \A k \in 0 .. elem_length - 1 :
                              OutField(i, p, k)
                                  = s.out[(i * num_anchors + p) * elem_length + k]
                /\ num_valid_boxes[i] = s.kept

\* Four boxes: the threads have completed, the second kept box suppressed
\* the third and the fourth box, one in each thread.
C18_Witness ==
    /\ ThreadsDone(0)
    /\ SuppressionPath(iou_threshold, 0)
    /\ nkeep(0) = 4
    /\ Alive(0, 0) /\ Alive(0, 1) /\ ~Alive(0, 2) /\ ~Alive(0, 3)
    /\ RankedField(0, 2, score_index) > 0
    /\ RankedField(0, 3, score_index) > 0
    /\ num_valid_boxes[0] = 2

\* The barrier interval a thread is in: the number of barriers it has left.
Interval(i, tx) ==
    IF thread[<< i, tx >>].pc = "barrier"
    THEN thread[<< i, tx >>].syncs - 1
    ELSE thread[<< i, tx >>].syncs

\* C20: of two threads of a row that are in the same barrier interval,
\* neither has written a cell of out the other has written or read.
C20_SingleWriter ==
    thread # << >> =>
        \A i \in 0 .. batch_size - 1 :
            \A t1, t2 \in 0 .. max_threads - 1 :
                (t1 # t2 /\ Interval(i, t1) = Interval(i, t2)) =>
                    writes[<< i, t1 >>]
                        \cap (reads[<< i, t2 >>] \cup writes[<< i, t2 >>]) = {}

\* Two threads wait at the same barrier, each having invalidated its box.
C20_Witness ==
    /\ thread # << >>
    /\ thread[<< 0, 0 >>].pc = "barrier"
    /\ thread[<< 0, 1 >>].pc = "barrier"
    /\ thread[<< 0, 0 >>].syncs = thread[<< 0, 1 >>].syncs
    /\ writes[<< 0, 0 >>] # {}
    /\ writes[<< 0, 1 >>] # {}
    /\ reads[<< 0, 0 >>] \cap reads[<< 0, 1 >>] # {}

\* The cells of a [batch_size, num_anchors] buffer and of out that belong to
\* row i.
RowCells(i) == i * num_anchors .. (i + 1) * num_anchors - 1
OutCells(i) == i * num_anchors * elem_length .. (i + 1) * num_anchors * elem_length - 1

\* The threads of the scan kernel that is launched next.
NextScanKernel ==
    CASE pc = "copy" -> Launched("copy", 0, Grid(ceil_div(num_anchors, max_threads)))
      [] pc = "up" ->
             Launched("up", Pow2(l2_width + 1),
                      Grid(ceil_div(num_anchors, max_threads * Pow2(l2_width + 1))))
      [] pc = "total" -> Launched("total", 0, (0 .. batch_size - 1) \X {0})
      [] pc = "down" ->
             Launched("down", Pow2(lim - l2_width),
                      Grid(ceil_div(num_anchors, max_threads * Pow2(lim - l2_width))))
      [] OTHER -> {}

\* The steps of a row touch the cells of the row only: the threads of the
\* scan kernels, and the inner loop of the suppression.
RowPrivateAccess ==
    /\ \A e \in NextScanKernel :
           ScanReads(e) \cup ScanWrites(e) \subseteq RowCells(e.t[1])
    /\ pc = "suppress" =>
           \A i \in 0 .. batch_size - 1 :
               (row_pc[i] = "loop" /\ SuppressionPath(iou_threshold, i)
                   /\ nms_j[i] < nkeep(i)) =>
                   \A k \in InnerSlots(i, nms_j[i]) :
                       InnerReads(i, nms_j[i], k) \cup InnerWrites(i, k)
                           \subseteq OutCells(i)

\* C16: in two invocations that agree on the inputs of row r and differ in
\* the other row, the mask, valid_count, the destination indices, the
\* compacted boxes and their indices, and out, box_indices and
\* num_valid_boxes of nms_ir are the same for row r at every stage, for every
\* interleaving of the rows; and the steps of a row touch only its cells.
C16_RowIndependence ==
    /\ RowPrivateAccess
    /\ run = 2 =>
           LET r == first_run.row
           IN  /\ pc # "filter" => RowEq(valid_boxes, first_run.valid_boxes, r, 1)
               /\ pc \in {"scanned", "scatter", "compacted", "reorder", "suppress"} =>
                      /\ valid_count[r] = first_run.valid_count[r]
                      /\ RowEq(valid_indices, first_run.valid_indices, r, 1)
               /\ pc = "compacted" =>
                      RowEq(out, first_run.compacted, r, elem_length)
               /\ pc \in {"compacted", "reorder", "suppress"} =>
                      RowEq(out_indices, first_run.out_indices, r, 1)
               /\ pc \in {"reorder", "suppress"} =>
                      RowEq(data, first_run.compacted, r, elem_length)
               /\ RowDone(r) =>
                      /\ RowEq(out, first_run.out, r, elem_length)
                      /\ RowEq(box_indices, first_run.box_indices, r, 1)
                      /\ num_valid_boxes[r] = first_run.num_valid_boxes[r]

\* The second invocation has completed for row 1, where a box was
\* suppressed, while row 0 holds other boxes than in the first invocation
\* and has not completed.
C16_Witness ==
    /\ run = 2
    /\ first_run.row = 1
    /\ num_anchors = 2
    /\ RowDone(1)
    /\ row_pc[0] = "loop"
    /\ valid_count[1] = 2
    /\ num_valid_boxes[1] = 1
    /\ valid_count[0] # first_run.valid_count[0]
    /\ ~RowEq(data, first_run.compacted, 0, elem_length)

(* ---------------------------------------------------------------------- *)
(* C21                                                                    *)
(* ---------------------------------------------------------------------- *)

\* The threads of a row meet at the same barriers: no thread runs the outer
\* loop past nkeep; a thread that has arrived at more barriers than another
\* is not in an earlier outer step; two threads waiting at their n-th barrier are in the same
\* outer step and inner iteration with the same kept counter; two threads
\* that have finished have passed the same number of barriers with the same
\* kept counter.
BarriersAligned ==
    thread # << >> =>
        \A i \in 0 .. batch_size - 1 : \A tx, ty \in 0 .. max_threads - 1 :
            LET a == thread[<< i, tx >>]
                b == thread[<< i, ty >>]
            IN  /\ SuppressionPath(iou_threshold, i) => a.j <= nkeep(i)
                /\ a.syncs > b.syncs => a.j >= b.j
                /\ a.pc = "barrier" /\ b.pc = "barrier" /\ a.syncs = b.syncs
                       => a.j = b.j /\ a.kk = b.kk /\ a.local = b.local
                /\ a.pc = "done" /\ b.pc = "done"
                       => a.syncs = b.syncs /\ a.local = b.local

\* Every thread of every block has finished.
AllThreadsDone ==
    /\ thread # << >>
    /\ \A t \in NmsThreads : thread[t].pc = "done"

\* C21: every thread of the second kernel of nms_ir eventually finishes,
\* after at most nkeep outer steps, and the threads of a row reach the same
\* sequence of barriers: none waits at a barrier another thread skips.
C21_TerminationNoDivergence == [] BarriersAligned /\ <>[] AllThreadsDone

\* Three boxes on the suppression path: both threads have finished after the
\* two barriers of step 0 and the barrier of step 1.
C21_Witness ==
    /\ AllThreadsDone
    /\ SuppressionPath(iou_threshold, 0)
    /\ nkeep(0) >= 3
    /\ \A tx \in 0 .. max_threads - 1 : thread[<< 0, tx >>].syncs >= 2

(* ---------------------------------------------------------------------- *)
(* C22                                                                    *)
(* ---------------------------------------------------------------------- *)

\* A step of the second kernel changes a cell of out only into -1, and only
\* the score or (with id_index >= 0) the class id of a slot that is
\* suppressed after the step.
SuppressionWritesOnly ==
    pc = "suppress" =>
        \A c \in DOMAIN out :
            out'[c] # out[c] =>
                /\ \/ c % elem_length = score_index
                   \/ id_index >= 0 /\ c % elem_length = id_index
                /\ out'[c] = -FloatScale
                /\ out'[(c \div elem_length) * elem_length + score_index] = -FloatScale

\* The inputs of nms_ir are not written.
InputsUnchanged ==
    /\ data' = data
    /\ sorted_index' = sorted_index
    /\ valid_count' = valid_count
    /\ indices' = indices

\* What the first kernel puts into field k of slot p of a row on the
\* suppression path: the box of rank p below nkeep, -1 from nkeep on.
Materialised(i, p, k) ==
    IF p < nkeep(i) THEN RankedField(i, p, k) ELSE -FloatScale

\* During the second kernel every slot of a row on the suppression path has
\* the coordinates the first kernel gave it, every slot with a live score and
\* every slot counted as kept has all its fields, and a changed field is the
\* score or the class id.
SlotsAsMaterialised ==
    pc = "suppress" =>
        \A i \in 0 .. batch_size - 1 :
            OnSuppressionPath(i) =>
                \A p \in 0 .. num_anchors - 1 :
                    /\ \A k \in coord_start .. coord_start + 3 :
                           OutField(i, p, k) = Materialised(i, p, k)
                    /\ Alive(i, p) \/ p \in KeptSet(i, iou_threshold) =>
                           \A k \in 0 .. elem_length - 1 :
                               OutField(i, p, k) = Materialised(i, p, k)
                    /\ \A k \in 0 .. elem_length - 1 :
                           OutField(i, p, k) # Materialised(i, p, k) =>
                               k = score_index \/ (id_index >= 0 /\ k = id_index)

\* C22: the second kernel of nms_ir writes only the score and (with
\* id_index >= 0) the class id of a suppressed slot; coordinates, kept slots
\* and slot positions stay as the first kernel materialised them, and data,
\* sorted_index, valid_count and indices are never written.
C22_SuppressionFrame ==
    /\ [][SuppressionWritesOnly /\ InputsUnchanged]_vars
    /\ [] SlotsAsMaterialised

\* A finished row with class ids: a suppressed slot holds -1 as score and
\* class id and still the coordinates of its box, and slot 0 was kept.
C22_Witness ==
    /\ RowDone(0)
    /\ OnSuppressionPath(0)
    /\ id_index >= 0
    /\ 0 \in KeptSet(0, iou_threshold)
    /\ \E p \in 1 .. nkeep(0) - 1 :
           /\ ~Alive(0, p)
           /\ OutField(0, p, id_index) = -FloatScale
           /\ RankedField(0, p, score_index) > 0
           /\ \E k \in coord_start .. coord_start + 3 : OutField(0, p, k) > 0

(* ---------------------------------------------------------------------- *)
(* C23                                                                    *)
(* ---------------------------------------------------------------------- *)

\* The box of rank p of row i has no area.
ZeroArea(i, p) ==
    \/ RankedField(i, p, coord_start) = RankedField(i, p, coord_start + 2)
    \/ RankedField(i, p, coord_start + 1) = RankedField(i, p, coord_start + 3)

\* The IoU of the boxes of ranks p and q of row i.
RankedIou(i, p, q) ==
    calculate_overlap(
        data,
        (i * num_anchors + sorted_index[i * num_anchors + p]) * elem_length + coord_start,
        (i * num_anchors + sorted_index[i * num_anchors + q]) * elem_length + coord_start)

\* The boxes without area among the first nkeep whose score is above -1.
ZeroAreaLive(i) ==
    {p \in 0 .. nkeep(i) - 1 :
        ZeroArea(i, p) /\ RankedField(i, p, score_index) > -FloatScale}

\* C23: with iou_threshold > 0 the IoU of a box without area with any box is
\* 0, also with a box equal to it; such a box keeps its score throughout the
\* second kernel, a box is only invalidated by an earlier kept box with area;
\* at completion every box without area among the first nkeep with a live
\* score was counted as kept, unless max_output_size boxes were counted.
C23_DegenerateBoxes ==
    \A i \in 0 .. batch_size - 1 :
        (pc = "suppress" /\ OnSuppressionPath(i)) =>
            /\ \A p, q \in 0 .. num_anchors - 1 :
                   ZeroArea(i, p) =>
                       RankedIou(i, p, q)[1] = 0 /\ RankedIou(i, q, p)[1] = 0
            /\ \A p \in 0 .. nkeep(i) - 1 :
                   ZeroArea(i, p) =>
                       OutField(i, p, score_index) = RankedField(i, p, score_index)
            /\ \A q \in 0 .. nkeep(i) - 1 :
                   OutField(i, q, score_index) # RankedField(i, q, score_index) =>
                       \E p \in 0 .. q - 1 :
                           /\ ~ZeroArea(i, p)
                           /\ Alive(i, p)
                           /\ p < nms_j[i]
                           /\ Suppresses(i, p, q)
            /\ RowDone(i) =>
                   /\ \A p \in ZeroAreaLive(i) :
                          \/ p \in KeptSet(i, iou_threshold)
                          \/ max_output_size > 0 /\ num_valid_boxes[i] = max_output_size
                   /\ num_valid_boxes[i] >=
                          IF max_output_size > 0
                          THEN Min(max_output_size, Cardinality(ZeroAreaLive(i)))
                          ELSE Cardinality(ZeroAreaLive(i))

\* A finished row of three boxes: the square, kept, has invalidated its lower
\* half, and the two equal segments inside it, one of them with score 0, are
\* both counted.
C23_Witness ==
    /\ RowDone(0)
    /\ OnSuppressionPath(0)
    /\ max_output_size <= 0
    /\ nkeep(0) = 3
    /\ \E p, q \in ZeroAreaLive(0) :
           /\ p # q
           /\ \A k \in coord_start .. coord_start + 3 :
                  RankedField(0, p, k) = RankedField(0, q, k)
           /\ RankedField(0, q, score_index) <= 0
    /\ \E p \in 0 .. 2 : ~ZeroArea(0, p) /\ Alive(0, p)
    /\ num_valid_boxes[0] = 3

(* ---------------------------------------------------------------------- *)
(* C24                                                                    *)
(* ---------------------------------------------------------------------- *)

\* A step of the second kernel leaves a score of -1 at -1, writes only slots
\* after the slot j of the step, and does not decrease a kept counter.
MonotoneStep ==
    pc = "suppress" =>
        \A i \in 0 .. batch_size - 1 :
            /\ num_valid_boxes_local'[i] >= num_valid_boxes_local[i]
            /\ \A p \in 0 .. num_anchors - 1 :
                   /\ ~Alive(i, p) =>
                          out'[(i * num_anchors + p) * elem_length + score_index]
                              = -FloatScale
                   /\ (\E k \in 0 .. elem_length - 1 :
                          out'[(i * num_anchors + p) * elem_length + k]
                              # OutField(i, p, k)) => p > nms_j[i]

\* The boxes counted as kept in the steps before the current one are alive,
\* with the score the first kernel gave them.
KeptStayAlive ==
    pc = "suppress" =>
        \A i \in 0 .. batch_size - 1 :
            \A p \in KeptSet(i, iou_threshold) :
                p < nms_j[i] =>
                    /\ Alive(i, p)
                    /\ OutField(i, p, score_index) = RankedField(i, p, score_index)

\* C24: during the second kernel of nms_ir a score of -1 stays -1, a box
\* counted as kept in step j is not invalidated in a later step (step j
\* writes only positions after j), and the kept counter never decreases.
C24_SuppressionMonotone == [][MonotoneStep]_vars /\ [] KeptStayAlive

\* Three steps of a row are done: box 0 was kept and has invalidated box 1,
\* box 2 was kept after it.
C24_Witness ==
    /\ pc = "suppress"
    /\ OnSuppressionPath(0)
    /\ nms_j[0] >= 3
    /\ {0, 2} \subseteq KeptSet(0, iou_threshold)
    /\ RankedField(0, 1, score_index) > 0
    /\ ~Alive(0, 1)
    /\ num_valid_boxes_local[0] >= 2

(* ---------------------------------------------------------------------- *)
(* C25                                                                    *)
(* ---------------------------------------------------------------------- *)

\* C25: on the suppression path, for any max_output_size and top_k, when the
\* box at sorted position 0 has a score above -1, slot 0 of the output keeps
\* the fields of that box throughout the second kernel; once step 0 is done
\* the box is counted and, with return_indices, box_indices[row][0] is
\* indices[row][sorted_index[row][0]]; at completion num_valid_boxes[row] >= 1.
C25_TopBoxKept ==
    \A i \in 0 .. batch_size - 1 :
        ( /\ pc = "suppress"
          /\ OnSuppressionPath(i)
          /\ RankedField(i, 0, score_index) > -FloatScale )
        => /\ \A k \in 0 .. elem_length - 1 :
                  OutField(i, 0, k) = RankedField(i, 0, k)
           /\ nms_j[i] >= 1 =>
                  /\ num_valid_boxes_local[i] >= 1
                  /\ 0 \in KeptSet(i, iou_threshold)
                  /\ return_indices =>
                         box_indices[i * num_anchors] =
                             indices[i * num_anchors + sorted_index[i * num_anchors]]
           /\ RowDone(i) => num_valid_boxes[i] >= 1

\* A finished row of three valid boxes with max_output_size = 1: the first
\* box, from a valid position, is the one box counted, and its index is
\* recorded.
C25_Witness ==
    /\ RowDone(0)
    /\ OnSuppressionPath(0)
    /\ max_output_size = 1
    /\ nkeep(0) >= 2
    /\ RankedField(0, 0, score_index) > 0
    /\ num_valid_boxes[0] = 1
    /\ return_indices
    /\ box_indices[0] = indices[sorted_index[0]]
    /\ box_indices[0] >= 0

(* ---------------------------------------------------------------------- *)
(* C26                                                                    *)
(* ---------------------------------------------------------------------- *)

\* The record of the anchor at input position q of row i.
DataRecord(i, q) == [k \in 1 .. elem_length |-> DataField(i, q, k - 1)]

\* The record in slot p of the output of row i.
OutRecord(i, p) == [k \in 1 .. elem_length |-> OutField(i, p, k - 1)]

\* C26 (the claim as stated): when the first kernel of nms_ir has run, every
\* slot of a row holds -1 in every field or the record of an anchor at one of
\* the first valid_count[row] input positions, and every index recorded in
\* box_indices is the index of such a position.  The sort permutation ranks
\* all num_anchors positions (argsort is called with valid_count = None), so
\* a position from valid_count on with a high score has a rank below nkeep.
C26_Claim_OnlyValidBoxes ==
    \A i \in 0 .. batch_size - 1 :
        (pc = "suppress" /\ OnSuppressionPath(i)) =>
            /\ nms_j[i] = 0 =>
                   \A p \in 0 .. num_anchors - 1 :
                       \/ OutRecord(i, p) = SentinelAnchor
                       \/ \E q \in 0 .. valid_count[i] - 1 :
                              OutRecord(i, p) = DataRecord(i, q)
            /\ \A p \in 0 .. num_valid_boxes_local[i] - 1 :
                   return_indices =>
                       \E q \in 0 .. valid_count[i] - 1 :
                           box_indices[i * num_anchors + p] = indices[i * num_anchors + q]

====
